---- MODULE Spec2Model ----
(***************************************************************************)
(* Key custody of mya.py: the wallet file, its JSON record, the advisory   *)
(* lock, backups and restore.                                              *)
(*                                                                         *)
(* A file's content is a sequence of JSON tokens.  A byte value is written *)
(* as its decimal digits, one token per digit, so that records of          *)
(* different keypairs differ in length as they do on disk.                 *)
(***************************************************************************)
EXTENDS Integers, Sequences, FiniteSets, TLC

(***************************************************************************)
(* Bounds                                                                  *)
(***************************************************************************)
\* Length of a keypair's byte string (64 in solders; scaled down).
KeyLen == 2

\* Byte values a keypair is drawn from: one- and two-digit decimals.
ByteVals == {5, 37}

RECURSIVE SeqsOf(_, _)
SeqsOf(S, n) ==
    IF n = 0 THEN {<<>>}
    ELSE {Append(s, x) : s \in SeqsOf(S, n - 1), x \in S}

\* The keypairs of the model: Keypair() and Keypair.from_bytes accept these.
Keys == SeqsOf(ByteVals, KeyLen)

(***************************************************************************)
(* ExitCode (src/mya.py:86-99)                                             *)
(***************************************************************************)
GENERAL_ERROR == 1
NO_WALLET == 3
SECURITY_ERROR == 7

(***************************************************************************)
(* JSON tokens                                                             *)
(***************************************************************************)
Tok(t, n) == [t |-> t, n |-> n]
LBrace == Tok("{", 0)
RBrace == Tok("}", 0)
LBrack == Tok("[", 0)
RBrack == Tok("]", 0)
Comma == Tok(",", 0)
KeyBytes == Tok("bytes", 0)
KeyChecksum == Tok("checksum", 0)
Digit(d) == Tok("d", d)
\* A JSON string value; n = 0 is the empty string "".
Str(n) == Tok("str", n)

\* hashlib.sha256(data).hexdigest()[:8].  The digest is modelled as a
\* collision-free function of the bytes (base-256 positional value behind a
\* leading 1), never 0, so it is distinct from the empty string.
RECURSIVE Sha256Hex8(_)
Sha256Hex8(data) ==
    IF data = <<>> THEN 1
    ELSE Sha256Hex8(SubSeq(data, 1, Len(data) - 1)) * 256 + data[Len(data)]

compute_wallet_checksum(data) == Sha256Hex8(data)

\* json.dump of an int: its decimal digits.
RECURSIVE IntJson(_)
IntJson(b) ==
    IF b < 10 THEN <<Digit(b)>>
    ELSE IntJson(b \div 10) \o <<Digit(b % 10)>>

\* json.dump of a list of ints.
RECURSIVE ItemsJson(_)
ItemsJson(bs) ==
    IF bs = <<>> THEN <<>>
    ELSE IF Len(bs) = 1 THEN IntJson(bs[1])
    ELSE IntJson(bs[1]) \o <<Comma>> \o ItemsJson(Tail(bs))

ListJson(bs) == <<LBrack>> \o ItemsJson(bs) \o <<RBrack>>

\* json.dump of {"bytes": [...], "checksum": c} (the "created" and "version"
\* members, which load_wallet never reads, are left out).
DictJson(bs, c) ==
    <<LBrace, KeyBytes>> \o ListJson(bs) \o <<KeyChecksum, Str(c)>> \o <<RBrace>>

\* json.dump of {"bytes": [...]}: a record that carries no checksum member.
DictNoChecksumJson(bs) == <<LBrace, KeyBytes>> \o ListJson(bs) \o <<RBrace>>

\* json.dump of {"checksum": c}: a record that carries no bytes member.
DictNoBytesJson(c) == <<LBrace, KeyChecksum, Str(c), RBrace>>

\* WalletJson with the bug of storing the checksum of a truncated key.
WalletJson_StaleChecksum(keypair_bytes) ==
    DictJson(keypair_bytes, compute_wallet_checksum(Tail(keypair_bytes)))

\* wallet_data of save_wallet, serialised.
WalletJson(keypair_bytes) ==
    DictJson(keypair_bytes, compute_wallet_checksum(keypair_bytes))

(***************************************************************************)
(* json.load                                                               *)
(***************************************************************************)
At(toks, i) == IF i >= 1 /\ i <= Len(toks) THEN toks[i] ELSE Tok("eof", 0)

\* First index at or after i that holds no digit.
RECURSIVE NumEnd(_, _)
NumEnd(toks, i) ==
    IF At(toks, i).t = "d" THEN NumEnd(toks, i + 1) ELSE i

\* Value of the digits toks[i..j-1].
RECURSIVE NumVal(_, _, _)
NumVal(toks, i, j) ==
    IF j <= i THEN 0
    ELSE NumVal(toks, i, j - 1) * 10 + toks[j - 1].n

ParseFail == [ok |-> FALSE, vals |-> <<>>, next |-> 0]

\* Items of a list from index i on: number ("," number)* "]".
RECURSIVE ParseItems(_, _, _)
ParseItems(toks, i, acc) ==
    LET j == NumEnd(toks, i) IN
    IF j = i THEN ParseFail
    ELSE IF j - i > 1 /\ toks[i].n = 0 THEN ParseFail
    ELSE LET acc2 == Append(acc, NumVal(toks, i, j)) IN
         IF At(toks, j) = Comma THEN ParseItems(toks, j + 1, acc2)
         ELSE IF At(toks, j) = RBrack
              THEN [ok |-> TRUE, vals |-> acc2, next |-> j + 1]
              ELSE ParseFail

\* A list starting at index i.
ParseList(toks, i) ==
    IF At(toks, i) # LBrack THEN ParseFail
    ELSE IF At(toks, i + 1) = RBrack
         THEN [ok |-> TRUE, vals |-> <<>>, next |-> i + 2]
         ELSE ParseItems(toks, i + 1, <<>>)

JsonError ==
    [kind |-> "error", hasBytes |-> FALSE, vals |-> <<>>,
     hasChecksum |-> FALSE, checksum |-> 0]

\* The members of a dict from index i on, then "}" as the last token.
ParseDict(toks) ==
    LET hasB == At(toks, 2) = KeyBytes
        lst == IF hasB THEN ParseList(toks, 3) ELSE ParseFail
        i == IF hasB THEN lst.next ELSE 2
        hasC == At(toks, i) = KeyChecksum
        k == IF hasC THEN i + 2 ELSE i
    IN  IF hasB /\ ~lst.ok THEN JsonError
        ELSE IF hasC /\ At(toks, i + 1).t # "str" THEN JsonError
        ELSE IF At(toks, k) # RBrace \/ k # Len(toks) THEN JsonError
        ELSE [kind |-> "dict", hasBytes |-> hasB,
              vals |-> IF hasB THEN lst.vals ELSE <<>>,
              hasChecksum |-> hasC,
              checksum |-> IF hasC THEN toks[i + 1].n ELSE 0]

\* json.load(f): a dict, a list, or JSONDecodeError.
json_load(toks) ==
    IF At(toks, 1) = LBrace THEN ParseDict(toks)
    ELSE IF At(toks, 1) = LBrack
         THEN LET lst == ParseList(toks, 1) IN
              IF lst.ok /\ lst.next = Len(toks) + 1
              THEN [kind |-> "list", hasBytes |-> FALSE, vals |-> lst.vals,
                    hasChecksum |-> FALSE, checksum |-> 0]
              ELSE JsonError
         ELSE JsonError

\* bytes(list) raises ValueError unless every item is in range(256).
BytesOk(vals) == \A i \in 1..Len(vals) : vals[i] <= 255

\* Keypair.from_bytes raises unless it is given a whole keypair.
KeypairOk(bs) == Len(bs) = KeyLen


(***************************************************************************)
(* Permission bits: a mode is its three octal digits <<owner, group,       *)
(* other>>.                                                                *)
(***************************************************************************)
Bits(d) == {b \in {1, 2, 4} : (d \div b) % 2 = 1}

Octal(bits) ==
    (IF 4 \in bits THEN 4 ELSE 0) + (IF 2 \in bits THEN 2 ELSE 0)
        + (IF 1 \in bits THEN 1 ELSE 0)

\* The mode a file or directory is created with: requested & ~umask.
Masked(mode, mask) == [i \in 1..3 |-> Octal(Bits(mode[i]) \ Bits(mask[i]))]

\* st_mode & 0o077
GrantsGroupOrOther(mode) == mode[2] # 0 \/ mode[3] # 0

\* os.chmod(path, 0o600)
OwnerOnly == <<6, 0, 0>>

\* open(path, 'w') asks for 0o666; mkdir() and os.open(..., O_CREAT)
\* without a mode ask for 0o777.
NewFileMode == <<6, 6, 6>>
DefaultMode == <<7, 7, 7>>

\* The umasks of the model: the usual default, and a private one.
Umasks == {<<0, 2, 2>>, <<0, 7, 7>>}

(***************************************************************************)
(* Base58 (src/mya.py:1094-1121).  A text is the sequence of its           *)
(* characters.                                                             *)
(***************************************************************************)
B58_ALPHABET ==
    <<"1", "2", "3", "4", "5", "6", "7", "8", "9",
      "A", "B", "C", "D", "E", "F", "G", "H", "J", "K", "L", "M", "N", "P",
      "Q", "R", "S", "T", "U", "V", "W", "X", "Y", "Z",
      "a", "b", "c", "d", "e", "f", "g", "h", "i", "j", "k", "m", "n", "o",
      "p", "q", "r", "s", "t", "u", "v", "w", "x", "y", "z">>

\* int.from_bytes(data, 'big')
RECURSIVE int_from_bytes(_)
int_from_bytes(data) ==
    IF data = <<>> THEN 0
    ELSE int_from_bytes(SubSeq(data, 1, Len(data) - 1)) * 256 + data[Len(data)]

\* The while loop of b58_encode: the digits of num, most significant first.
RECURSIVE B58Digits(_)
B58Digits(num) ==
    IF num = 0 THEN <<>>
    ELSE Append(B58Digits(num \div 58), B58_ALPHABET[(num % 58) + 1])

\* The for loop of b58_encode: one '1' for each leading zero byte.
RECURSIVE LeadingOnes(_)
LeadingOnes(data) ==
    IF data = <<>> \/ data[1] # 0 THEN <<>>
    ELSE <<"1">> \o LeadingOnes(Tail(data))

\* b58_encode without the '1' of each leading zero byte.
b58_encode_NoLeadingOnes(data) ==
    LET result == B58Digits(int_from_bytes(data))
    IN  IF result = <<>> THEN <<"1">> ELSE result

b58_encode(data) ==
    LET result == LeadingOnes(data) \o B58Digits(int_from_bytes(data))
    IN  IF result = <<>> THEN <<"1">> ELSE result

\* num.to_bytes((num.bit_length() + 7) // 8, 'big') if num else b''
RECURSIVE to_bytes(_)
to_bytes(num) ==
    IF num = 0 THEN <<>> ELSE Append(to_bytes(num \div 256), num % 256)

B58Index(c) == (CHOOSE i \in 1..Len(B58_ALPHABET) : B58_ALPHABET[i] = c) - 1

\* The for loop of b58_decode over a text of alphabet characters.
RECURSIVE B58Num(_)
B58Num(s) ==
    IF s = <<>> THEN 0
    ELSE B58Num(SubSeq(s, 1, Len(s) - 1)) * 58 + B58Index(s[Len(s)])

\* len(s) - len(s.lstrip('1')) zero bytes.
RECURSIVE LeadingZeros(_)
LeadingZeros(s) ==
    IF s = <<>> \/ s[1] # "1" THEN <<>>
    ELSE <<0>> \o LeadingZeros(Tail(s))

\* b58_decode: the bytes, or ValueError at a character outside the alphabet.
b58_decode(s) ==
    IF \E i \in 1..Len(s) : \A j \in 1..Len(B58_ALPHABET) : B58_ALPHABET[j] # s[i]
    THEN [ok |-> FALSE, bytes |-> <<>>]
    ELSE [ok |-> TRUE, bytes |-> LeadingZeros(s) \o to_bytes(B58Num(s))]

\* Characters that sanitize_input removes (one stands for the class).
ControlChars == {"\\x00"}

\* sanitize_input on a text shorter than 10000 characters.
sanitize_input(text) == SelectSeq(text, LAMBDA c : c \notin ControlChars)

(***************************************************************************)
(* The file system under two processes that each call save_wallet once.    *)
(* A path names an inode (0: no such file); an open file descriptor keeps  *)
(* its inode across a rename or an unlink of the path.                     *)
(***************************************************************************)
Procs == {1, 2}

\* Inode 1 and 2: created by process 1 and 2; inode 3: the wallet file
\* present before either call.
PriorIno == Cardinality(Procs) + 1
Inodes == Procs \cup {PriorIno}

\* Content reported for a path that names no file.
Absent == <<Tok("absent", 0)>>

VARIABLES
    HAS_FCNTL,   \* the platform has fcntl (src/mya.py:63-68)
    inode,       \* inode -> content
    walletIno,   \* get_wallet_file()
    tempIno,     \* wallet_file.with_suffix('.tmp')
    lockIno,     \* wallet_file.with_suffix('.lock')
    flockOn,     \* process -> inode it holds the exclusive flock on (0: none)
    lockOpen,    \* process -> inode of the descriptor opened on the lock file
    lock_fd,     \* process -> what acquire_file_lock returned (0: None)
    tempFd,      \* process -> inode of its descriptor on the temp file
    pc,          \* process -> its position in save_wallet
    keypair,     \* process -> the keypair it saves
    raised,      \* process -> an exception is propagating out of the try
    contended,   \* process -> its flock found the lock held by the other
    wrote,       \* process -> it has written to the temp file
    prior        \* content of the wallet file before either call

varsSave ==
    <<HAS_FCNTL, inode, walletIno, tempIno, lockIno, flockOn, lockOpen,
      lock_fd, tempFd, pc, keypair, raised, contended, wrote, prior>>

VARIABLES
    wallet,      \* content of get_wallet_file(), or Absent
    walletMeta,  \* how that content came about: [kind, key]
    walletMode,  \* its permission bits, as octal digits <<owner, group, other>>
    legacy,      \* content of wallet.json in the skill directory, or Absent
    legacyMeta,  \* how that content came about
    loaded       \* what the last load_wallet gave, while the file is unchanged

varsStore == <<wallet, walletMeta, walletMode, legacy, legacyMeta, loaded>>

VARIABLES
    backups,     \* backup name -> content of get_backup_dir()/<name>.json, or Absent
    backupMeta,  \* backup name -> how the content copied into it came about
    backupMode,  \* backup name -> permission bits of that file
    backupDir,   \* permission bits of get_backup_dir(), or NoDir
    rpc,         \* position of the running restore_backup ("idle": none runs)
    rsrc,        \* name of the backup of the last restore_backup
    rprev,       \* content of the wallet file when it was called
    rmeta,       \* backupMeta of the backup when it was called
    restored     \* how the last restore_backup ended

varsBackup ==
    <<backups, backupMeta, backupMode, backupDir, rpc, rsrc, rprev, rmeta,
      restored>>

(***************************************************************************)
(* Python integers (arbitrary precision).  A non-negative integer is the   *)
(* sequence of its digits in base Radix, least significant first, without  *)
(* leading zero digits; zero is the empty sequence.                        *)
(***************************************************************************)
Radix == 10000

Trim(a) ==
    LET used == {i \in 1..Len(a) : a[i] # 0}
    IN  IF used = {} THEN <<>>
        ELSE SubSeq(a, 1, CHOOSE i \in used : \A j \in used : j <= i)

Rest(a) == IF a = <<>> THEN <<>> ELSE Tail(a)
Low(a) == IF a = <<>> THEN 0 ELSE a[1]

\* a <= b
BigLeq(a, b) ==
    IF Len(a) # Len(b) THEN Len(a) < Len(b)
    ELSE IF a = b THEN TRUE
    ELSE LET top == CHOOSE i \in 1..Len(a) :
                        a[i] # b[i] /\ \A j \in (i + 1)..Len(a) : a[j] = b[j]
         IN  a[top] < b[top]

\* a + b + carry
RECURSIVE BigAddCarry(_, _, _)
BigAddCarry(a, b, carry) ==
    IF a = <<>> /\ b = <<>>
    THEN (IF carry = 0 THEN <<>> ELSE <<carry>>)
    ELSE LET x == Low(a) + Low(b) + carry
         IN  <<x % Radix>> \o BigAddCarry(Rest(a), Rest(b), x \div Radix)

BigAdd(a, b) == BigAddCarry(a, b, 0)

\* a - b - borrow, for a >= b + borrow
RECURSIVE BigSubBorrow(_, _, _)
BigSubBorrow(a, b, borrow) ==
    IF a = <<>> THEN <<>>
    ELSE LET x == a[1] - Low(b) - borrow
         IN  IF x < 0
             THEN <<x + Radix>> \o BigSubBorrow(Tail(a), Rest(b), 1)
             ELSE <<x>> \o BigSubBorrow(Tail(a), Rest(b), 0)

\* a - b: the sign and the magnitude.
BigSub(a, b) ==
    IF BigLeq(b, a)
    THEN [neg |-> FALSE, mag |-> Trim(BigSubBorrow(a, b, 0))]
    ELSE [neg |-> TRUE, mag |-> Trim(BigSubBorrow(b, a, 0))]

\* a * m + carry, for a digit m
RECURSIVE BigMulDigit(_, _, _)
BigMulDigit(a, m, carry) ==
    IF a = <<>>
    THEN (IF carry = 0 THEN <<>> ELSE <<carry>>)
    ELSE LET x == (a[1] * m) + carry
         IN  <<x % Radix>> \o BigMulDigit(Tail(a), m, x \div Radix)

\* a * b
RECURSIVE BigMul(_, _)
BigMul(a, b) ==
    IF b = <<>> THEN <<>>
    ELSE Trim(BigAdd(BigMulDigit(a, b[1], 0), <<0>> \o BigMul(a, Tail(b))))

\* The largest digit q in lo..hi with d * q <= r.
RECURSIVE QuotientDigit(_, _, _, _)
QuotientDigit(r, d, lo, hi) ==
    IF lo = hi THEN lo
    ELSE LET mid == (lo + hi + 1) \div 2
         IN  IF BigLeq(Trim(BigMulDigit(d, mid, 0)), r)
             THEN QuotientDigit(r, d, mid, hi)
             ELSE QuotientDigit(r, d, lo, mid - 1)

\* divmod(a, d) for d > 0, by long division from the most significant digit.
RECURSIVE BigDivMod(_, _)
BigDivMod(a, d) ==
    IF a = <<>> THEN [q |-> <<>>, r |-> <<>>]
    ELSE LET high == BigDivMod(Tail(a), d)
             cur == Trim(<<a[1]>> \o high.r)
             digit == QuotientDigit(cur, d, 0, Radix - 1)
         IN  [q |-> Trim(<<digit>> \o high.q),
              r |-> BigSub(cur, Trim(BigMulDigit(d, digit, 0))).mag]

\* a // d
BigDiv(a, d) == BigDivMod(a, d).q

\* The integer of a small number.
RECURSIVE Big(_)
Big(n) == IF n = 0 THEN <<>> ELSE <<n % Radix>> \o Big(n \div Radix)

\* A small integer back.
RECURSIVE Small(_)
Small(a) == IF a = <<>> THEN 0 ELSE a[1] + Radix * Small(Tail(a))

\* 2^64 - 1 = 18,446,744,073,709,551,615
U64Max == <<1615, 955, 737, 6744, 1844>>

VARIABLES
    umask,        \* the umask of the process
    recovery,     \* the key text in get_recovery_file(), or NoText
    recoveryMode, \* permission bits of that file
    stdout,       \* the key texts the last command printed
    cmd,          \* the last command that ran to its end
    before        \* content of the wallet file when that command began

varsCmd == <<umask, recovery, recoveryMode, stdout, cmd, before>>

VARIABLES
    flow,          \* the command that is running: launch, sell, collect, or none
    tpc,           \* its position: build, message, sign, send; sent at its end
    mint_keypair,  \* native_launch_with_buy: Keypair() of the mint
    launch,        \* native_launch_with_buy: initial_buy_sol > 0, the amounts
    instructions,  \* the list of instructions under construction
    message,       \* Message.new_with_blockhash(instructions, payer, ...)
    signers,       \* the keypairs given to tx.sign
    sent           \* the fields of the last outbound request

varsTx ==
    <<flow, tpc, mint_keypair, launch, instructions, message, signers, sent>>

VARIABLES
    fn,    \* the function called last, or "none"
    args,  \* its arguments
    ret    \* what it returned or raised

varsCalc == <<fn, args, ret>>

VARIABLES
    running,  \* the command or function that runs: launch, sell, poker,
              \* api_request, or none
    where,    \* its position; done at its end
    argv,     \* its arguments
    env,      \* what it fetched from the network
    effects,  \* what it did so far, in order
    status,   \* its exit code
    attempt   \* api_request: the attempts made

varsRun == <<running, where, argv, env, effects, status, attempt>>

\* The parts of the model after the commands on the wallet file.
varsLater == <<varsTx, varsCalc, varsRun>>

\* The files of one backup name.
backupFiles == <<backups, backupMeta, backupMode, backupDir>>

\* What the actions of one part of the model leave alone.
OutsideSave == <<varsStore, varsBackup, varsCmd, varsLater>>
OutsideStore == <<varsSave, backupFiles, rpc, varsCmd, varsLater>>
OutsideBackup == <<varsSave, legacy, legacyMeta, varsCmd, varsLater>>
OutsideTx == <<varsSave, varsBackup, varsCmd, varsCalc, varsRun>>
OutsideCalc == <<varsSave, varsStore, varsBackup, varsCmd, varsTx, varsRun>>
OutsideRun == <<varsSave, varsBackup, varsCmd, varsTx, varsCalc>>

Content(i) == IF i = 0 THEN Absent ELSE inode[i]
WalletContent == Content(walletIno)

\* write() of data at offset 0 of a file that holds old.
Overlay(old, data) == data \o SubSeq(old, Len(data) + 1, Len(old))

\* Before either call: the platform, the keypairs to save, the wallet file.
SaveState(fcntl, kps, content) ==
    /\ HAS_FCNTL = fcntl
    /\ keypair = kps
    /\ prior = content
    /\ walletIno = IF content = Absent THEN 0 ELSE PriorIno
    /\ inode = [i \in Inodes |-> IF i = PriorIno /\ content # Absent THEN content ELSE <<>>]
    /\ tempIno = 0
    /\ lockIno = 0
    /\ flockOn = [p \in Procs |-> 0]
    /\ lockOpen = [p \in Procs |-> 0]
    /\ lock_fd = [p \in Procs |-> 0]
    /\ tempFd = [p \in Procs |-> 0]
    /\ pc = [p \in Procs |-> "idle"]
    /\ raised = [p \in Procs |-> FALSE]
    /\ contended = [p \in Procs |-> FALSE]
    /\ wrote = [p \in Procs |-> FALSE]

\* The save_wallet processes, never started.
SaveIdle == SaveState(TRUE, [p \in Procs |-> <<>>], Absent)

\* save_wallet up to the call of acquire_file_lock.
SaveBegin(p) ==
    /\ pc[p] = "idle"
    /\ pc' = [pc EXCEPT ![p] = "acquire"]
    /\ UNCHANGED <<HAS_FCNTL, inode, walletIno, tempIno, lockIno, flockOn,
                   lockOpen, lock_fd, tempFd, keypair, raised, contended,
                   wrote, prior>>
    /\ UNCHANGED OutsideSave

\* acquire_file_lock: None without fcntl, else os.open(O_RDWR | O_CREAT).
AcquireOpen(p) ==
    /\ pc[p] = "acquire"
    /\ IF ~HAS_FCNTL
       THEN /\ pc' = [pc EXCEPT ![p] = "open"]
            /\ UNCHANGED <<lockIno, lockOpen>>
       ELSE /\ lockIno' = IF lockIno = 0 THEN p ELSE lockIno
            /\ lockOpen' = [lockOpen EXCEPT ![p] = lockIno']
            /\ pc' = [pc EXCEPT ![p] = "flock"]
    /\ UNCHANGED <<HAS_FCNTL, inode, walletIno, tempIno, flockOn, lock_fd,
                   tempFd, keypair, raised, contended, wrote, prior>>
    /\ UNCHANGED OutsideSave

\* acquire_file_lock: flock(LOCK_EX | LOCK_NB); any exception returns None.
AcquireFlock(p) ==
    /\ pc[p] = "flock"
    /\ IF \E q \in Procs \ {p} : flockOn[q] = lockOpen[p]
       THEN /\ contended' = [contended EXCEPT ![p] = TRUE]
            /\ UNCHANGED <<flockOn, lock_fd>>
       ELSE /\ flockOn' = [flockOn EXCEPT ![p] = lockOpen[p]]
            /\ lock_fd' = [lock_fd EXCEPT ![p] = lockOpen[p]]
            /\ UNCHANGED contended
    /\ pc' = [pc EXCEPT ![p] = "open"]
    /\ UNCHANGED <<HAS_FCNTL, inode, walletIno, tempIno, lockIno, lockOpen,
                   tempFd, keypair, raised, wrote, prior>>
    /\ UNCHANGED OutsideSave

\* OpenTemp with the bug of opening the wallet file itself for writing.
OpenTemp_InPlace(p) ==
    /\ pc[p] = "open"
    /\ walletIno' = IF walletIno = 0 THEN p ELSE walletIno
    /\ inode' = [inode EXCEPT ![walletIno'] = <<>>]
    /\ tempFd' = [tempFd EXCEPT ![p] = walletIno']
    /\ pc' = [pc EXCEPT ![p] = "dump"]
    /\ UNCHANGED <<HAS_FCNTL, tempIno, lockIno, flockOn, lockOpen, lock_fd,
                   keypair, raised, contended, wrote, prior>>
    /\ UNCHANGED OutsideSave

\* open(temp_file, 'w'): create the file, or truncate the one that is there.
OpenTemp(p) ==
    /\ pc[p] = "open"
    /\ tempIno' = IF tempIno = 0 THEN p ELSE tempIno
    /\ inode' = [inode EXCEPT ![tempIno'] = <<>>]
    /\ tempFd' = [tempFd EXCEPT ![p] = tempIno']
    /\ pc' = [pc EXCEPT ![p] = "dump"]
    /\ UNCHANGED <<HAS_FCNTL, walletIno, lockIno, flockOn, lockOpen, lock_fd,
                   keypair, raised, contended, wrote, prior>>
    /\ UNCHANGED OutsideSave

\* json.dump and the close of the with block: the record is smaller than the
\* io buffer and reaches the file in one write at offset 0.
DumpTemp(p) ==
    /\ pc[p] = "dump"
    /\ inode' = [inode EXCEPT ![tempFd[p]] = Overlay(@, WalletJson(keypair[p]))]
    /\ wrote' = [wrote EXCEPT ![p] = TRUE]
    /\ pc' = [pc EXCEPT ![p] = "chmod"]
    /\ UNCHANGED <<HAS_FCNTL, walletIno, tempIno, lockIno, flockOn, lockOpen,
                   lock_fd, tempFd, keypair, raised, contended, prior>>
    /\ UNCHANGED OutsideSave

\* os.chmod(temp_file, 0o600): FileNotFoundError when the path is gone.
ChmodTemp(p) ==
    /\ pc[p] = "chmod"
    /\ IF tempIno = 0
       THEN /\ raised' = [raised EXCEPT ![p] = TRUE]
            /\ pc' = [pc EXCEPT ![p] = "release"]
       ELSE /\ pc' = [pc EXCEPT ![p] = "rename"]
            /\ UNCHANGED raised
    /\ UNCHANGED <<HAS_FCNTL, inode, walletIno, tempIno, lockIno, flockOn,
                   lockOpen, lock_fd, tempFd, keypair, contended, wrote, prior>>
    /\ UNCHANGED OutsideSave

\* temp_file.rename(wallet_file): FileNotFoundError when the path is gone.
RenameTemp(p) ==
    /\ pc[p] = "rename"
    /\ IF tempIno = 0
       THEN /\ raised' = [raised EXCEPT ![p] = TRUE]
            /\ UNCHANGED <<walletIno, tempIno>>
       ELSE /\ walletIno' = tempIno
            /\ tempIno' = 0
            /\ UNCHANGED raised
    /\ pc' = [pc EXCEPT ![p] = "release"]
    /\ UNCHANGED <<HAS_FCNTL, inode, lockIno, flockOn, lockOpen, lock_fd,
                   tempFd, keypair, contended, wrote, prior>>
    /\ UNCHANGED OutsideSave

\* ReleaseLock with the bug of releasing after the try block instead of in
\* its finally: an exception skips the release.
ReleaseLock_NotInFinally(p) ==
    /\ pc[p] = "release"
    /\ flockOn' = [flockOn EXCEPT ![p] = IF lock_fd[p] = 0 \/ raised[p] THEN @ ELSE 0]
    /\ pc' = [pc EXCEPT ![p] = "unlink"]
    /\ UNCHANGED <<HAS_FCNTL, inode, walletIno, tempIno, lockIno, lockOpen,
                   lock_fd, tempFd, keypair, raised, contended, wrote, prior>>
    /\ UNCHANGED OutsideSave

\* finally: release_file_lock(lock_fd) does nothing for None.
ReleaseLock(p) ==
    /\ pc[p] = "release"
    /\ flockOn' = [flockOn EXCEPT ![p] = IF lock_fd[p] = 0 THEN @ ELSE 0]
    /\ pc' = [pc EXCEPT ![p] = "unlink"]
    /\ UNCHANGED <<HAS_FCNTL, inode, walletIno, tempIno, lockIno, lockOpen,
                   lock_fd, tempFd, keypair, raised, contended, wrote, prior>>
    /\ UNCHANGED OutsideSave

\* finally: if lock_file.exists(): lock_file.unlink().
UnlinkLock(p) ==
    /\ pc[p] = "unlink"
    /\ lockIno' = 0
    /\ pc' = [pc EXCEPT ![p] = IF raised[p] THEN "raised" ELSE "returned"]
    /\ UNCHANGED <<HAS_FCNTL, inode, walletIno, tempIno, flockOn, lockOpen,
                   lock_fd, tempFd, keypair, raised, contended, wrote, prior>>
    /\ UNCHANGED OutsideSave

Running(p) == pc[p] \notin {"idle", "returned", "raised", "crashed"}

\* The process is killed between two steps; the kernel drops its flock.
Crash(p) ==
    /\ Running(p)
    /\ pc' = [pc EXCEPT ![p] = "crashed"]
    /\ flockOn' = [flockOn EXCEPT ![p] = 0]
    /\ UNCHANGED <<HAS_FCNTL, inode, walletIno, tempIno, lockIno, lockOpen,
                   lock_fd, tempFd, keypair, raised, contended, wrote, prior>>
    /\ UNCHANGED OutsideSave

\* The process is killed inside the write: a prefix of the record is on disk.
CrashInDump(p) ==
    /\ pc[p] = "dump"
    /\ \E n \in 1..(Len(WalletJson(keypair[p])) - 1) :
          inode' = [inode EXCEPT ![tempFd[p]] =
                        Overlay(@, SubSeq(WalletJson(keypair[p]), 1, n))]
    /\ wrote' = [wrote EXCEPT ![p] = TRUE]
    /\ pc' = [pc EXCEPT ![p] = "crashed"]
    /\ flockOn' = [flockOn EXCEPT ![p] = 0]
    /\ UNCHANGED <<HAS_FCNTL, walletIno, tempIno, lockIno, lockOpen, lock_fd,
                   tempFd, keypair, raised, contended, prior>>
    /\ UNCHANGED OutsideSave

save_wallet(p) ==
    \/ SaveBegin(p)
    \/ AcquireOpen(p)
    \/ AcquireFlock(p)
    \/ OpenTemp(p)
    \/ DumpTemp(p)
    \/ ChmodTemp(p)
    \/ RenameTemp(p)
    \/ ReleaseLock(p)
    \/ UnlinkLock(p)

NextSave == \E p \in Procs : save_wallet(p)

\* One call of save_wallet, killed at any point.
NextCrash ==
    \/ save_wallet(1)
    \/ Crash(1)
    \/ CrashInDump(1)

(***************************************************************************)
(* The wallet file as one process sees it: load_wallet, save_wallet, and   *)
(* what may be found on disk.                                              *)
(***************************************************************************)
Meta(kind, key) == [kind |-> kind, key |-> key]
NoFile == Meta("absent", <<>>)
Image(c, kind, key) == [c |-> c, m |-> Meta(kind, key)]

\* No load_wallet since the file last changed.
NoLoad == [exit |-> -1, keypair |-> <<>>, warnings |-> {}]

Front(seq) == SubSeq(seq, 1, Len(seq) - 1)

\* Records that carry no checksum: no member, an empty one, the legacy list.
UnverifiableImages ==
    {Image(DictNoChecksumJson(k), "nochecksum", k) : k \in Keys}
    \cup {Image(DictJson(k, 0), "emptychecksum", k) : k \in Keys}
    \cup {Image(ListJson(k), "list", k) : k \in Keys}

\* Records whose stored checksum is the checksum of other bytes.
MismatchImages ==
    {Image(DictJson(k, compute_wallet_checksum(k2)), "badchecksum", k) :
        k \in Keys, k2 \in Keys} \ {Image(WalletJson(k), "badchecksum", k) : k \in Keys}

\* Files that do not decode: truncated records, a record without "bytes",
\* a byte list of the wrong length, an item outside range(256).
UnreadableImages ==
    UNION {{Image(SubSeq(WalletJson(k), 1, n), "garbage", k) :
                n \in 0..(Len(WalletJson(k)) - 1)} : k \in Keys}
    \cup {Image(DictNoBytesJson(compute_wallet_checksum(k)), "nobytes", k) : k \in Keys}
    \cup {Image(DictJson(Front(k), compute_wallet_checksum(Front(k))), "shortkey", k) :
            k \in Keys}
    \cup {Image(DictJson(<<300>> \o Tail(k), compute_wallet_checksum(k)), "bigbyte", k) :
            k \in Keys}

Images == UnverifiableImages \cup MismatchImages \cup UnreadableImages

\* No wallet file yet; the skill directory may hold a legacy wallet.json.
InitStore(img) ==
    /\ wallet = Absent
    /\ walletMeta = NoFile
    /\ walletMode = OwnerOnly
    /\ legacy = img.c
    /\ legacyMeta = img.m
    /\ loaded = NoLoad

NoRestore == "none"

\* Any other operation on the files ends the record of the last
\* restore_backup (rsrc, rprev, rmeta and restored are history variables).
RestoreForgotten ==
    /\ rsrc' = NoRestore
    /\ rprev' = Absent
    /\ rmeta' = NoFile
    /\ restored' = NoRestore

Exit(code) == [exit |-> code, keypair |-> <<>>]

\* Keypair.from_bytes(keypair_bytes) inside the try of load_wallet.
FromBytes(bs) ==
    IF KeypairOk(bs) THEN [exit |-> 0, keypair |-> bs] ELSE Exit(GENERAL_ERROR)

\* load_wallet_outcome with the bug of not comparing the checksum.
load_wallet_outcome_Unchecked(content) ==
    LET d == json_load(content) IN
    IF d.kind = "error" \/ (d.kind = "dict" /\ ~d.hasBytes) \/ ~BytesOk(d.vals)
    THEN Exit(GENERAL_ERROR)
    ELSE FromBytes(d.vals)

\* The try block of load_wallet on a file with this content.
load_wallet_outcome(content) ==
    LET d == json_load(content) IN
    IF d.kind = "error" THEN Exit(GENERAL_ERROR)
    ELSE IF d.kind = "dict"
    THEN IF ~d.hasBytes \/ ~BytesOk(d.vals) THEN Exit(GENERAL_ERROR)
         ELSE LET stored_checksum == IF d.hasChecksum THEN d.checksum ELSE 0 IN
              IF stored_checksum # 0
                   /\ stored_checksum # compute_wallet_checksum(d.vals)
              THEN Exit(SECURITY_ERROR)
              ELSE FromBytes(d.vals)
    ELSE IF ~BytesOk(d.vals) THEN Exit(GENERAL_ERROR)
         ELSE FromBytes(d.vals)

\* MissingWallet with the bug of reporting a missing file as a general error.
MissingWallet_GeneralError ==
    /\ loaded' = [exit |-> GENERAL_ERROR, keypair |-> <<>>, warnings |-> {}]
    /\ UNCHANGED <<wallet, walletMeta, walletMode, legacy, legacyMeta>>

\* load_wallet without a wallet file and without a legacy file to migrate.
MissingWallet ==
    /\ loaded' = [exit |-> NO_WALLET, keypair |-> <<>>, warnings |-> {}]
    /\ UNCHANGED <<wallet, walletMeta, walletMode, legacy, legacyMeta>>

\* ReadWallet with the bug of a verify_file_permissions that reports the
\* insecure mode and leaves it.
ReadWallet_ModeLeft ==
    LET migrate == wallet = Absent
        file == IF migrate THEN legacy ELSE wallet
        insecure == ~migrate /\ GrantsGroupOrOther(walletMode)
        out == load_wallet_outcome(file)
    IN  /\ wallet' = file
        /\ walletMeta' = IF migrate THEN legacyMeta ELSE walletMeta
        /\ legacy' = IF migrate THEN Absent ELSE legacy
        /\ legacyMeta' = IF migrate THEN NoFile ELSE legacyMeta
        /\ walletMode' = IF migrate THEN OwnerOnly ELSE walletMode
        /\ loaded' = [exit |-> out.exit, keypair |-> out.keypair,
                      warnings |->
                          (IF migrate THEN {"Migrating wallet from skill directory"}
                           ELSE {})
                          \cup (IF insecure
                                THEN {"Fixed insecure wallet permissions"}
                                ELSE {})]

\* load_wallet with a file to read: the wallet file, or the legacy file
\* moved to its place; the mode is tightened, the file read and checked.
ReadWallet ==
    LET migrate == wallet = Absent
        file == IF migrate THEN legacy ELSE wallet
        insecure == ~migrate /\ GrantsGroupOrOther(walletMode)
        out == load_wallet_outcome(file)
    IN  /\ wallet' = file
        /\ walletMeta' = IF migrate THEN legacyMeta ELSE walletMeta
        /\ legacy' = IF migrate THEN Absent ELSE legacy
        /\ legacyMeta' = IF migrate THEN NoFile ELSE legacyMeta
        /\ walletMode' = OwnerOnly
        /\ loaded' = [exit |-> out.exit, keypair |-> out.keypair,
                      warnings |->
                          (IF migrate THEN {"Migrating wallet from skill directory"}
                           ELSE {})
                          \cup (IF insecure
                                THEN {"Fixed insecure wallet permissions"}
                                ELSE {})]

load_wallet ==
    /\ rpc = "idle"
    /\ RestoreForgotten
    /\ IF wallet = Absent /\ legacy = Absent THEN MissingWallet ELSE ReadWallet
    /\ UNCHANGED OutsideStore

\* What save_wallet(k), run alone from start to end, does to the wallet
\* file: the record replaces it, with mode 0600.
WriteWallet(k) ==
    /\ wallet' = WalletJson(k)
    /\ walletMeta' = Meta("saved", k)
    /\ walletMode' = OwnerOnly
    /\ loaded' = NoLoad

\* save_wallet called on its own.
SaveWallet(k) ==
    /\ RestoreForgotten
    /\ rpc = "idle"
    /\ WriteWallet(k)
    /\ UNCHANGED <<legacy, legacyMeta>>
    /\ UNCHANGED OutsideStore

\* One byte of the persisted secret of a saved record is changed on disk.
Tamper(i, v) ==
    /\ RestoreForgotten
    /\ rpc = "idle"
    /\ walletMeta.kind = "saved"
    /\ v # walletMeta.key[i]
    /\ wallet' = DictJson([walletMeta.key EXCEPT ![i] = v],
                          json_load(wallet).checksum)
    /\ walletMeta' = Meta("tampered", walletMeta.key)
    /\ loaded' = NoLoad
    /\ UNCHANGED <<walletMode, legacy, legacyMeta>>
    /\ UNCHANGED OutsideStore

\* Some other file is found at the wallet path, with either mode.
Plant(img, mode) ==
    /\ RestoreForgotten
    /\ rpc = "idle"
    /\ wallet' = img.c
    /\ walletMeta' = img.m
    /\ walletMode' = mode
    /\ loaded' = NoLoad
    /\ UNCHANGED <<legacy, legacyMeta>>
    /\ UNCHANGED OutsideStore

\* The wallet file is deleted (cmd_uninstall).
DeleteWallet ==
    /\ RestoreForgotten
    /\ rpc = "idle"
    /\ wallet # Absent
    /\ wallet' = Absent
    /\ walletMeta' = NoFile
    /\ loaded' = NoLoad
    /\ UNCHANGED <<walletMode, legacy, legacyMeta>>
    /\ UNCHANGED OutsideStore

\* Values a byte on disk may be changed to.
TamperVals == ByteVals \cup {0, 255}

NextStore ==
    \/ load_wallet
    \/ \E k \in Keys : SaveWallet(k)
    \/ \E i \in 1..KeyLen, v \in TamperVals : Tamper(i, v)
    \/ \E img \in Images, mode \in {OwnerOnly, Masked(NewFileMode, <<0, 2, 2>>)} : Plant(img, mode)
    \/ DeleteWallet

vars == <<varsSave, varsStore, varsBackup, varsCmd, varsTx, varsCalc, varsRun>>

(***************************************************************************)
(* Backups: create_backup and restore_backup, step by step.                *)
(***************************************************************************)
\* "pre_restore" is the name restore_backup itself uses; a caller of
\* cmd_backup may pass any name.
BackupNames == {"pre_restore", "manual"}

\* The names the commands themselves pass to create_backup.
BackupLabels == {"pre_setup", "pre_restore", "pre_uninstall"}

NoDir == <<>>

BackupIdle ==
    /\ backups = [n \in BackupNames \cup BackupLabels |-> Absent]
    /\ backupMeta = [n \in BackupNames \cup BackupLabels |-> NoFile]
    /\ backupMode = [n \in BackupNames \cup BackupLabels |-> OwnerOnly]
    /\ backupDir = NoDir
    /\ rpc = "idle"
    /\ rsrc = NoRestore
    /\ rprev = Absent
    /\ rmeta = NoFile
    /\ restored = NoRestore

\* shutil.copy2(wallet_file, backup_file) of create_backup, as a whole.
\* backup_dir.mkdir(exist_ok=True)
MakeBackupDir ==
    backupDir' = IF backupDir = NoDir THEN Masked(DefaultMode, umask) ELSE backupDir

\* create_backup(name) with a wallet file, as a whole: mkdir,
\* shutil.copy2(wallet_file, backup_file), os.chmod(backup_file, 0o600).
CopyToBackup(name) ==
    /\ MakeBackupDir
    /\ backups' = [backups EXCEPT ![name] = wallet]
    /\ backupMeta' = [backupMeta EXCEPT ![name] = walletMeta]
    /\ backupMode' = [backupMode EXCEPT ![name] = OwnerOnly]

\* create_backup(name) without a wallet file: FileNotFoundError after mkdir.
NoWalletToBackup ==
    /\ MakeBackupDir
    /\ UNCHANGED <<backups, backupMeta, backupMode>>

\* create_backup(name) called from cmd_backup.
create_backup(name) ==
    /\ rpc = "idle"
    /\ IF wallet # Absent THEN CopyToBackup(name) ELSE NoWalletToBackup
    /\ RestoreForgotten
    /\ UNCHANGED rpc
    /\ UNCHANGED <<varsStore, varsSave, varsCmd, varsLater>>

\* The lines of restore_backup that read the backup: json.load, bytes(...),
\* Keypair.from_bytes.  TRUE when none of them raises.
BackupIsValid(content) ==
    LET data == json_load(content) IN
    /\ data.kind # "error"
    /\ data.kind = "dict" => data.hasBytes
    /\ BytesOk(data.vals)
    /\ KeypairOk(data.vals)

\* restore_backup up to wallet_file = get_wallet_file(): the backup must
\* exist and pass the validation, else the call raises.
RestoreBegin(name) ==
    /\ rpc = "idle"
    /\ IF backups[name] # Absent /\ BackupIsValid(backups[name])
       THEN /\ rpc' = "backup_current"
            /\ restored' = NoRestore
       ELSE /\ rpc' = "idle"
            /\ restored' = "raised"
    /\ rsrc' = name
    /\ rprev' = wallet
    /\ rmeta' = backupMeta[name]
    /\ UNCHANGED <<backupFiles, varsStore>>
    /\ UNCHANGED <<varsSave, varsCmd, varsLater>>

\* if wallet_file.exists(): create_backup("pre_restore").
RestoreBackupCurrent ==
    /\ rpc = "backup_current"
    /\ IF wallet # Absent
       THEN CopyToBackup("pre_restore")
       ELSE UNCHANGED backupFiles
    /\ rpc' = "copy_open"
    /\ UNCHANGED <<rsrc, rprev, rmeta, restored, varsStore>>
    /\ UNCHANGED <<varsSave, varsCmd, varsLater>>

\* shutil.copy2(backup_path, wallet_file): open(dst, 'wb') truncates the
\* wallet file, or creates it.
RestoreCopyOpen ==
    /\ rpc = "copy_open"
    /\ wallet' = <<>>
    /\ walletMeta' = Meta("garbage", <<>>)
    /\ walletMode' = IF wallet = Absent THEN Masked(NewFileMode, umask) ELSE walletMode
    /\ loaded' = NoLoad
    /\ rpc' = "copy_data"
    /\ UNCHANGED <<backupFiles, rsrc, rprev, rmeta, restored>>
    /\ UNCHANGED OutsideBackup

\* shutil.copy2(backup_path, wallet_file): the data and the stat are copied.
RestoreCopyData ==
    /\ rpc = "copy_data"
    /\ wallet' = backups[rsrc]
    /\ walletMeta' = backupMeta[rsrc]
    /\ rpc' = "chmod"
    /\ UNCHANGED <<walletMode, loaded>>
    /\ UNCHANGED <<backupFiles, rsrc, rprev, rmeta, restored>>
    /\ UNCHANGED OutsideBackup

\* os.chmod(wallet_file, 0o600), log_info, add_to_history, return.
RestoreChmod ==
    /\ rpc = "chmod"
    /\ walletMode' = OwnerOnly
    /\ rpc' = "idle"
    /\ restored' = "returned"
    /\ UNCHANGED <<wallet, walletMeta, loaded>>
    /\ UNCHANGED <<backupFiles, rsrc, rprev, rmeta>>
    /\ UNCHANGED OutsideBackup

\* The process is killed between two steps of restore_backup.
RestoreCrash ==
    /\ rpc # "idle"
    /\ rpc' = "idle"
    /\ restored' = "crashed"
    /\ UNCHANGED <<backupFiles, rsrc, rprev, rmeta, varsStore>>
    /\ UNCHANGED <<varsSave, varsCmd, varsLater>>

restore_backup(name) ==
    \/ RestoreBegin(name)
    \/ RestoreBackupCurrent
    \/ RestoreCopyOpen
    \/ RestoreCopyData
    \/ RestoreChmod

\* The wallet file is corrupted: cut to nothing, or to its first tokens.
CorruptImages ==
    {Image(<<>>, "garbage", <<>>), Image(<<LBrace, KeyBytes, LBrack>>, "garbage", <<>>)}

NextBackup ==
    \/ \E k \in Keys : SaveWallet(k)
    \/ \E v \in ByteVals : Tamper(1, v)
    \/ \E img \in CorruptImages : Plant(img, OwnerOnly)
    \/ \E name \in BackupNames : create_backup(name)
    \/ \E name \in BackupNames : restore_backup(name)
    \/ RestoreCrash

(***************************************************************************)
(* Commands, each run alone from start to end.                             *)
(***************************************************************************)
NoText == <<>>

\* What one command did: its name, the wallet file it found, what it
\* printed of the key.
Ran(name, printed) ==
    /\ cmd' = name
    /\ before' = wallet
    /\ stdout' = printed
    /\ RestoreForgotten
    /\ UNCHANGED <<umask, rpc, varsSave, varsLater>>

\* cmd_setup without --force finds a wallet file: a warning, nothing done.
SetupRefused ==
    /\ Ran("setup refused", {})
    /\ UNCHANGED <<varsStore, backupFiles, recovery, recoveryMode>>

\* cmd_setup past the check: backup of the wallet file, Keypair(),
\* save_wallet, the recovery file, the key on standard output.
SetupWallet(k) ==
    /\ IF wallet # Absent THEN CopyToBackup("pre_setup") ELSE UNCHANGED backupFiles
    /\ WriteWallet(k)
    /\ recovery' = b58_encode(k)
    /\ recoveryMode' = OwnerOnly
    /\ Ran("setup", {b58_encode(k)})
    /\ UNCHANGED <<legacy, legacyMeta>>

cmd_setup(force, k) ==
    /\ rpc = "idle"
    /\ IF wallet # Absent /\ ~force THEN SetupRefused ELSE SetupWallet(k)

\* cmd_wallet_import with the bug of printing the imported key.
cmd_wallet_import_EchoesKey(key) ==
    LET decoded == b58_decode(sanitize_input(key)) IN
    /\ rpc = "idle"
    /\ IF decoded.ok /\ KeypairOk(decoded.bytes)
       THEN WriteWallet(decoded.bytes) /\ Ran("import", {b58_encode(decoded.bytes)})
       ELSE /\ UNCHANGED <<wallet, walletMeta, walletMode, loaded>>
            /\ Ran("import refused", {})
    /\ UNCHANGED <<legacy, legacyMeta, backupFiles, recovery, recoveryMode>>

\* cmd_wallet import: b58_decode(sanitize_input(key)), Keypair.from_bytes
\* and save_wallet; a ValueError of the first two ends the command.
cmd_wallet_import(key) ==
    LET decoded == b58_decode(sanitize_input(key)) IN
    /\ rpc = "idle"
    /\ IF decoded.ok /\ KeypairOk(decoded.bytes)
       THEN WriteWallet(decoded.bytes) /\ Ran("import", {})
       ELSE /\ UNCHANGED <<wallet, walletMeta, walletMode, loaded>>
            /\ Ran("import refused", {})
    /\ UNCHANGED <<legacy, legacyMeta, backupFiles, recovery, recoveryMode>>

\* cmd_wallet export / show-key: load_wallet, then the key is printed.
cmd_wallet_show_key ==
    /\ rpc = "idle"
    /\ IF wallet = Absent /\ legacy = Absent
       THEN /\ MissingWallet
            /\ Ran("show-key refused", {})
       ELSE /\ ReadWallet
            /\ IF loaded'.exit = 0
               THEN Ran("show-key", {b58_encode(loaded'.keypair)})
               ELSE Ran("show-key refused", {})
    /\ UNCHANGED <<backupFiles, recovery, recoveryMode>>

\* cmd_backup create: create_backup(name); its exception is reported.
cmd_backup_create(name) ==
    /\ rpc = "idle"
    /\ IF wallet # Absent
       THEN CopyToBackup(name) /\ Ran("backup", {})
       ELSE NoWalletToBackup /\ Ran("backup refused", {})
    /\ UNCHANGED <<varsStore, recovery, recoveryMode>>

\* cmd_backup restore: restore_backup(file) from validation to chmod; its
\* exception is reported.
cmd_backup_restore(name) ==
    /\ rpc = "idle"
    /\ IF backups[name] # Absent /\ BackupIsValid(backups[name])
       THEN /\ IF wallet # Absent
               THEN CopyToBackup("pre_restore")
               ELSE UNCHANGED backupFiles
            /\ wallet' = backups'[name]
            /\ walletMeta' = backupMeta'[name]
            /\ walletMode' = OwnerOnly
            /\ loaded' = NoLoad
            /\ Ran("restore", {})
       ELSE /\ UNCHANGED <<wallet, walletMeta, walletMode, loaded, backupFiles>>
            /\ Ran("restore refused", {})
    /\ UNCHANGED <<legacy, legacyMeta, recovery, recoveryMode>>

\* cmd_uninstall, confirmed: a last backup, then the wallet file and the
\* recovery file are deleted.
cmd_uninstall ==
    /\ rpc = "idle"
    /\ IF wallet # Absent THEN CopyToBackup("pre_uninstall") ELSE UNCHANGED backupFiles
    /\ wallet' = Absent
    /\ walletMeta' = NoFile
    /\ loaded' = NoLoad
    /\ recovery' = NoText
    /\ Ran("uninstall", {})
    /\ UNCHANGED <<walletMode, recoveryMode, legacy, legacyMeta>>

\* The keypairs the commands meet: two that differ in their last byte.
CommandKeys == {k \in Keys : \A i \in 1..(KeyLen - 1) : k[i] = 5}

\* The key texts given to wallet import: keys, a key with a control
\* character, a text outside the alphabet, a text of the wrong length.
ImportKeys ==
    {b58_encode(k) : k \in CommandKeys}
    \cup {b58_encode(k) \o <<"\\x00">> : k \in CommandKeys}
    \cup {<<"0">>, <<"2">>}

NextCommands ==
    \/ \E force \in BOOLEAN, k \in CommandKeys : cmd_setup(force, k)
    \/ \E key \in ImportKeys : cmd_wallet_import(key)
    \/ cmd_wallet_show_key
    \/ \E name \in BackupNames : cmd_backup_create(name)
    \/ \E name \in BackupNames \cup BackupLabels : cmd_backup_restore(name)
    \/ cmd_uninstall

(***************************************************************************)
(* Transactions the program builds, signs and sends itself, and the other  *)
(* requests that carry something of the wallet.                            *)
(***************************************************************************)
\* An address: a constant of the program, the public key of a keypair, or
\* an address derived from seeds.
Address(name, key, seeds) == [name |-> name, key |-> key, seeds |-> seeds]

\* Pubkey.from_string("...") of the PUMP.FUN PROGRAM CONSTANTS.
from_string(name) == Address(name, <<>>, <<>>)

\* keypair.pubkey()
pubkey(kp) == Address("pubkey", kp, <<>>)

\* Pubkey.find_program_address(seeds, program_id) of the derive_ functions.
find_program_address(label, seeds, program_id) ==
    Address(label, <<>>, Append(seeds, from_string(program_id)))

AccountMeta(address, is_signer, is_writable) ==
    [pubkey |-> address, is_signer |-> is_signer, is_writable |-> is_writable]

Instruction(program_id, data, accounts) ==
    [program_id |-> from_string(program_id), data |-> data, accounts |-> accounts]

derive_bonding_curve(mint) ==
    find_program_address("bonding-curve", <<mint>>, "PUMP_PROGRAM_ID")

derive_associated_bonding_curve(bonding_curve, mint) ==
    find_program_address("", <<bonding_curve, from_string("TOKEN_PROGRAM_ID"), mint>>,
                         "ASSOCIATED_TOKEN_PROGRAM_ID")

derive_user_ata(user, mint) ==
    find_program_address("", <<user, from_string("TOKEN_PROGRAM_ID"), mint>>,
                         "ASSOCIATED_TOKEN_PROGRAM_ID")

derive_creator_vault(creator) ==
    find_program_address("creator-vault", <<creator>>, "PUMP_PROGRAM_ID")

build_create_ata_instruction(payer, ata, owner, mint) ==
    Instruction("ASSOCIATED_TOKEN_PROGRAM_ID", <<"create_ata">>,
        <<AccountMeta(payer, TRUE, TRUE),
          AccountMeta(ata, FALSE, TRUE),
          AccountMeta(owner, FALSE, FALSE),
          AccountMeta(mint, FALSE, FALSE),
          AccountMeta(from_string("SYSTEM_PROGRAM_ID"), FALSE, FALSE),
          AccountMeta(from_string("TOKEN_PROGRAM_ID"), FALSE, FALSE)>>)

build_transfer_instruction(from_pubkey, to_pubkey, lamports) ==
    Instruction("SYSTEM_PROGRAM_ID", <<"transfer", lamports>>,
        <<AccountMeta(from_pubkey, TRUE, TRUE),
          AccountMeta(to_pubkey, FALSE, TRUE)>>)

build_create_instruction(user, mint, name, symbol, uri) ==
    LET bonding_curve == derive_bonding_curve(mint) IN
    Instruction("PUMP_PROGRAM_ID", <<"create", name, symbol, uri>>,
        <<AccountMeta(mint, TRUE, TRUE),
          AccountMeta(from_string("PUMP_MINT_AUTHORITY"), FALSE, FALSE),
          AccountMeta(bonding_curve, FALSE, TRUE),
          AccountMeta(derive_associated_bonding_curve(bonding_curve, mint), FALSE, TRUE),
          AccountMeta(from_string("PUMP_GLOBAL"), FALSE, FALSE),
          AccountMeta(from_string("MPL_TOKEN_METADATA_PROGRAM_ID"), FALSE, FALSE),
          AccountMeta(find_program_address("metadata",
                          <<from_string("MPL_TOKEN_METADATA_PROGRAM_ID"), mint>>,
                          "MPL_TOKEN_METADATA_PROGRAM_ID"), FALSE, TRUE),
          AccountMeta(user, TRUE, TRUE),
          AccountMeta(from_string("SYSTEM_PROGRAM_ID"), FALSE, FALSE),
          AccountMeta(from_string("TOKEN_PROGRAM_ID"), FALSE, FALSE),
          AccountMeta(from_string("ASSOCIATED_TOKEN_PROGRAM_ID"), FALSE, FALSE),
          AccountMeta(from_string("RENT_PROGRAM_ID"), FALSE, FALSE),
          AccountMeta(from_string("PUMP_EVENT_AUTHORITY"), FALSE, FALSE),
          AccountMeta(from_string("PUMP_PROGRAM_ID"), FALSE, FALSE)>>)

\* build_buy_instruction with the account list of the IDL before 3.2.1:
\* without the volume accumulators and the fee accounts.
build_buy_instruction_OldIdl(user, mint, creator, token_amount, max_sol_lamports) ==
    LET bonding_curve == derive_bonding_curve(mint) IN
    Instruction("PUMP_PROGRAM_ID", <<"buy", token_amount, max_sol_lamports, 0>>,
        <<AccountMeta(from_string("PUMP_GLOBAL"), FALSE, FALSE),
          AccountMeta(from_string("PUMP_FEE_RECIPIENT"), FALSE, TRUE),
          AccountMeta(mint, FALSE, FALSE),
          AccountMeta(bonding_curve, FALSE, TRUE),
          AccountMeta(derive_associated_bonding_curve(bonding_curve, mint), FALSE, TRUE),
          AccountMeta(derive_user_ata(user, mint), FALSE, TRUE),
          AccountMeta(user, TRUE, TRUE),
          AccountMeta(from_string("SYSTEM_PROGRAM_ID"), FALSE, FALSE),
          AccountMeta(from_string("TOKEN_PROGRAM_ID"), FALSE, FALSE),
          AccountMeta(derive_creator_vault(creator), FALSE, TRUE),
          AccountMeta(from_string("PUMP_EVENT_AUTHORITY"), FALSE, FALSE),
          AccountMeta(from_string("PUMP_PROGRAM_ID"), FALSE, FALSE)>>)

build_buy_instruction(user, mint, creator, token_amount, max_sol_lamports) ==
    LET bonding_curve == derive_bonding_curve(mint) IN
    Instruction("PUMP_PROGRAM_ID", <<"buy", token_amount, max_sol_lamports, 0>>,
        <<AccountMeta(from_string("PUMP_GLOBAL"), FALSE, FALSE),
          AccountMeta(from_string("PUMP_FEE_RECIPIENT"), FALSE, TRUE),
          AccountMeta(mint, FALSE, FALSE),
          AccountMeta(bonding_curve, FALSE, TRUE),
          AccountMeta(derive_associated_bonding_curve(bonding_curve, mint), FALSE, TRUE),
          AccountMeta(derive_user_ata(user, mint), FALSE, TRUE),
          AccountMeta(user, TRUE, TRUE),
          AccountMeta(from_string("SYSTEM_PROGRAM_ID"), FALSE, FALSE),
          AccountMeta(from_string("TOKEN_PROGRAM_ID"), FALSE, FALSE),
          AccountMeta(derive_creator_vault(creator), FALSE, TRUE),
          AccountMeta(from_string("PUMP_EVENT_AUTHORITY"), FALSE, FALSE),
          AccountMeta(from_string("PUMP_PROGRAM_ID"), FALSE, FALSE),
          AccountMeta(find_program_address("global_volume_accumulator", <<>>,
                          "PUMP_PROGRAM_ID"), FALSE, FALSE),
          AccountMeta(find_program_address("user_volume_accumulator", <<user>>,
                          "PUMP_PROGRAM_ID"), FALSE, TRUE),
          AccountMeta(find_program_address("fee_config",
                          <<from_string("PUMP_PROGRAM_ID")>>, "FEE_PROGRAM_ID"),
                      FALSE, FALSE),
          AccountMeta(from_string("FEE_PROGRAM_ID"), FALSE, FALSE)>>)

build_sell_instruction(user, mint, creator, token_amount, min_sol_lamports) ==
    LET bonding_curve == derive_bonding_curve(mint) IN
    Instruction("PUMP_PROGRAM_ID", <<"sell", token_amount, min_sol_lamports>>,
        <<AccountMeta(from_string("PUMP_GLOBAL"), FALSE, FALSE),
          AccountMeta(from_string("PUMP_FEE_RECIPIENT"), FALSE, TRUE),
          AccountMeta(mint, FALSE, FALSE),
          AccountMeta(bonding_curve, FALSE, TRUE),
          AccountMeta(derive_associated_bonding_curve(bonding_curve, mint), FALSE, TRUE),
          AccountMeta(derive_user_ata(user, mint), FALSE, TRUE),
          AccountMeta(user, TRUE, TRUE),
          AccountMeta(from_string("SYSTEM_PROGRAM_ID"), FALSE, FALSE),
          AccountMeta(derive_creator_vault(creator), FALSE, TRUE),
          AccountMeta(from_string("TOKEN_PROGRAM_ID"), FALSE, FALSE),
          AccountMeta(from_string("PUMP_EVENT_AUTHORITY"), FALSE, FALSE),
          AccountMeta(from_string("PUMP_PROGRAM_ID"), FALSE, FALSE),
          AccountMeta(find_program_address("fee_config",
                          <<from_string("PUMP_PROGRAM_ID")>>, "FEE_PROGRAM_ID"),
                      FALSE, FALSE),
          AccountMeta(from_string("FEE_PROGRAM_ID"), FALSE, FALSE)>>)

\* The collectCreatorFee instruction of cmd_collect_fees.
collect_ix(creator) ==
    Instruction("PUMP_PROGRAM_ID", <<"collectCreatorFee">>,
        <<AccountMeta(creator, TRUE, TRUE),
          AccountMeta(derive_creator_vault(creator), FALSE, TRUE),
          AccountMeta(from_string("SYSTEM_PROGRAM_ID"), FALSE, FALSE)>>)

\* Token amounts and lamports given to the commands.
Amounts == {1, 1000}

NoLaunch == [buy |-> FALSE, tokens |-> 0, lamports |-> 0]
NoMessage == [instructions |-> <<>>, payer |-> from_string("")]

\* No command of this part has run.
TxIdle ==
    /\ flow = "none"
    /\ tpc = "sent"
    /\ mint_keypair = <<>>
    /\ launch = NoLaunch
    /\ instructions = <<>>
    /\ message = NoMessage
    /\ signers = <<>>
    /\ sent = {}

\* keypair = load_wallet() at the start of a command; sys.exit ends it.
LoadKeypair ==
    /\ flow = "none"
    /\ rpc = "idle"
    /\ wallet # Absent
    /\ ReadWallet
    /\ loaded'.exit = 0

\* One field of an outbound request: what it is, the keypair it comes from,
\* the content of the file it was read from.
Field(kind, key, content) == [kind |-> kind, key |-> key, content |-> content]

\* What the fields of a request give away of a keypair: the bytes, their
\* base58 text, or a JSON record or list of them.
Carries(field, kp) ==
    \/ field.kind \in {"bytes", "base58"} /\ field.key = kp
    \/ LET data == json_load(field.content)
       IN  field.kind = "file" /\ data.kind # "error" /\ data.vals = kp

\* A command starts to build a transaction.
Building(name, mint_kp, l, ixs, position) ==
    /\ LoadKeypair
    /\ flow' = name
    /\ tpc' = position
    /\ mint_keypair' = mint_kp
    /\ launch' = l
    /\ instructions' = ixs
    /\ message' = NoMessage
    /\ signers' = <<>>
    /\ sent' = {}
    /\ UNCHANGED OutsideTx

\* native_launch_with_buy with the bug of adding the buy before its
\* associated token account.
LaunchInstructions_BuyBeforeAta(user, mint, l) ==
    <<build_transfer_instruction(user, from_string("SOUL_TREASURY"), 10),
      build_create_instruction(user, mint, "name", "SYMBOL", "uri")>>
    \o (IF l.buy
        THEN <<build_buy_instruction(user, mint, user, l.tokens, l.lamports),
               build_create_ata_instruction(user, derive_user_ata(user, mint),
                                            user, mint)>>
        ELSE <<>>)

\* The instructions native_launch_with_buy appends, in its order
\* (SOUL_PLATFORM_FEE scaled down).
LaunchInstructions(user, mint, l) ==
    <<build_transfer_instruction(user, from_string("SOUL_TREASURY"), 10),
      build_create_instruction(user, mint, "name", "SYMBOL", "uri")>>
    \o (IF l.buy
        THEN <<build_create_ata_instruction(user, derive_user_ata(user, mint),
                                            user, mint),
               build_buy_instruction(user, mint, user, l.tokens, l.lamports)>>
        ELSE <<>>)

\* native_launch_with_buy up to instructions = [].
LaunchBegin(mint_kp, l) ==
    /\ mint_kp # load_wallet_outcome(wallet).keypair
    /\ Building("launch", mint_kp, l, <<>>, "build")

LaunchPlan ==
    LaunchInstructions(pubkey(loaded.keypair), pubkey(mint_keypair), launch)

\* instructions.append(...) of native_launch_with_buy.
AppendInstruction ==
    /\ flow = "launch"
    /\ tpc = "build"
    /\ instructions' = Append(instructions, LaunchPlan[Len(instructions) + 1])
    /\ tpc' = IF Len(instructions') = Len(LaunchPlan) THEN "message" ELSE "build"
    /\ UNCHANGED <<flow, mint_keypair, launch, message, signers, sent>>
    /\ UNCHANGED <<varsStore, OutsideTx>>

\* native_sell up to sell_ix; the token is another user's or the user's own.
SellBegin(creator_kp, mint_kp, amount, min_sol) ==
    Building("sell", <<>>, NoLaunch,
             <<build_sell_instruction(pubkey(load_wallet_outcome(wallet).keypair),
                                      pubkey(mint_kp), pubkey(creator_kp),
                                      amount, min_sol)>>,
             "message")

\* cmd_collect_fees up to collect_ix.
CollectBegin ==
    Building("collect", <<>>, NoLaunch,
             <<collect_ix(pubkey(load_wallet_outcome(wallet).keypair))>>, "message")

\* message = Message.new_with_blockhash(instructions, user, ...)
BuildMessage ==
    /\ tpc = "message"
    /\ message' = [instructions |-> instructions, payer |-> pubkey(loaded.keypair)]
    /\ tpc' = "sign"
    /\ UNCHANGED <<flow, mint_keypair, launch, instructions, signers, sent>>
    /\ UNCHANGED <<varsStore, OutsideTx>>

\* SignTx with the bug of a launch signed by the wallet keypair alone.
SignTx_WalletOnly ==
    /\ tpc = "sign"
    /\ signers' = <<loaded.keypair>>
    /\ tpc' = "send"
    /\ UNCHANGED <<flow, mint_keypair, launch, instructions, message, sent>>
    /\ UNCHANGED <<varsStore, OutsideTx>>

\* tx.sign([mint_keypair, keypair], ...) of the launch, tx.sign([keypair], ...)
\* of the sell and of the collection.
SignTx ==
    /\ tpc = "sign"
    /\ signers' = IF flow = "launch"
                  THEN <<mint_keypair, loaded.keypair>>
                  ELSE <<loaded.keypair>>
    /\ tpc' = "send"
    /\ UNCHANGED <<flow, mint_keypair, launch, instructions, message, sent>>
    /\ UNCHANGED <<varsStore, OutsideTx>>

\* send_transaction_native(rpc_url, tx), and the return of the command.
send_transaction_native ==
    /\ tpc = "send"
    /\ sent' = {Field("pubkey", a.pubkey.key, <<>>) :
                   a \in UNION {{message.instructions[i].accounts[j] :
                                    j \in 1..Len(message.instructions[i].accounts)} :
                                i \in 1..Len(message.instructions)}}
               \cup {Field("signature", signers[i], <<>>) : i \in 1..Len(signers)}
    /\ tpc' = "sent"
    /\ flow' = "none"
    /\ UNCHANGED <<mint_keypair, launch, instructions, message, signers>>
    /\ UNCHANGED <<varsStore, OutsideTx>>

\* A request of a command that sends no transaction.
Request(name) ==
    /\ LoadKeypair
    /\ tpc' = name
    /\ mint_keypair' = <<>>
    /\ launch' = NoLaunch
    /\ instructions' = <<>>
    /\ message' = NoMessage
    /\ signers' = <<>>
    /\ UNCHANGED flow
    /\ UNCHANGED OutsideTx

\* get_poker_challenge(action) and the request that carries its result.
get_poker_challenge ==
    /\ Request("poker")
    /\ sent' = {Field("pubkey", loaded'.keypair, <<>>),
                Field("signature", loaded'.keypair, <<>>)}

\* The files --soul-file may name: the default soul_extract.json, absent
\* before a soul extraction, and the wallet file.
SoulFiles == {"soul_extract.json", "wallet.json"}

\* cmd_link: the challenge is signed; the JSON of the soul file, when there
\* is one, goes into the link request as it is.
cmd_link(soul_file) ==
    LET soul_data == IF soul_file = "wallet.json" THEN json_load(wallet) ELSE JsonError
    IN  /\ Request("link")
        /\ sent' = {Field("pubkey", loaded'.keypair, <<>>),
                    Field("signature", loaded'.keypair, <<>>)}
                   \cup (IF soul_data.kind # "error" /\ soul_data.vals # <<>>
                         THEN {Field("file", <<>>, wallet)}
                         ELSE {})

NextTx ==
    \/ \E mint_kp \in Keys, buy \in BOOLEAN, tokens, lamports \in Amounts :
          LaunchBegin(mint_kp, [buy |-> buy, tokens |-> tokens, lamports |-> lamports])
    \/ AppendInstruction
    \/ \E creator_kp, mint_kp \in CommandKeys, amount, min_sol \in Amounts :
          SellBegin(creator_kp, mint_kp, amount, min_sol)
    \/ CollectBegin
    \/ BuildMessage
    \/ SignTx
    \/ send_transaction_native
    \/ get_poker_challenge
    \/ \E soul_file \in SoulFiles : cmd_link(soul_file)

(***************************************************************************)
(* Pure functions: each is called on arguments of its own domain.           *)
(***************************************************************************)
\* s.encode('utf-8') of one character, given by its code point.
Utf8(c) ==
    IF c < 128 THEN <<c>>
    ELSE IF c < 2048 THEN <<192 + (c \div 64), 128 + (c % 64)>>
    ELSE IF c < 65536
         THEN <<224 + (c \div 4096), 128 + ((c \div 64) % 64), 128 + (c % 64)>>
         ELSE <<240 + (c \div 262144), 128 + ((c \div 4096) % 64),
                128 + ((c \div 64) % 64), 128 + (c % 64)>>

\* s.encode('utf-8'); a string is the sequence of its code points.
RECURSIVE encode_utf8(_)
encode_utf8(s) == IF s = <<>> THEN <<>> ELSE Utf8(s[1]) \o encode_utf8(Tail(s))

\* struct.pack('<I', n) for n < 2^32
pack_I(n) ==
    <<n % 256, (n \div 256) % 256, (n \div 65536) % 256, (n \div 16777216) % 256>>

\* encode_string with the number of characters as the length prefix.
encode_string_CharCount(s) == pack_I(Len(s)) \o encode_utf8(s)

encode_string(s) ==
    LET encoded == encode_utf8(s) IN pack_I(Len(encoded)) \o encoded

\* The width low bytes of n, least significant first.
RECURSIVE LittleEndian(_, _)
LittleEndian(n, width) ==
    IF width = 0 THEN <<>>
    ELSE LET dm == BigDivMod(n, <<256>>)
         IN  <<Small(dm.r)>> \o LittleEndian(dm.q, width - 1)

\* struct.pack('<Q', n) for 0 <= n < 2^64
pack_Q(n) == LittleEndian(n, 8)

\* struct.unpack('<Q', data)[0]
RECURSIVE unpack_Q(_)
unpack_Q(data) ==
    IF data = <<>> THEN <<>>
    ELSE Trim(BigAdd(Big(data[1]), BigMulDigit(unpack_Q(Tail(data)), 256, 0)))

\* data of build_create_instruction
create_data(name, symbol, uri, user) ==
    <<24, 30, 200, 40, 5, 28, 7, 119>>
    \o encode_string(name) \o encode_string(symbol) \o encode_string(uri) \o user

\* data of build_buy_instruction
buy_data(token_amount, max_sol_lamports) ==
    <<102, 6, 61, 18, 1, 218, 235, 234>>
    \o pack_Q(token_amount) \o pack_Q(max_sol_lamports) \o <<0>>

\* The decoder of the external program: UTF-8 bytes to code points.
RECURSIVE decode_utf8(_)
decode_utf8(b) ==
    IF b = <<>> THEN <<>>
    ELSE IF b[1] < 128 THEN <<b[1]>> \o decode_utf8(SubSeq(b, 2, Len(b)))
    ELSE IF b[1] < 224
         THEN <<(b[1] - 192) * 64 + (b[2] - 128)>> \o decode_utf8(SubSeq(b, 3, Len(b)))
    ELSE IF b[1] < 240
         THEN <<(b[1] - 224) * 4096 + (b[2] - 128) * 64 + (b[3] - 128)>>
              \o decode_utf8(SubSeq(b, 4, Len(b)))
         ELSE <<(b[1] - 240) * 262144 + (b[2] - 128) * 4096
                + (b[3] - 128) * 64 + (b[4] - 128)>>
              \o decode_utf8(SubSeq(b, 5, Len(b)))

\* The decoder of the external program: the strings that follow each other
\* from position at, each after its 4-byte little-endian length.
RECURSIVE decode_strings(_, _, _)
decode_strings(data, at, count) ==
    IF count = 0 THEN <<>>
    ELSE LET size == data[at] + 256 * data[at + 1] + 65536 * data[at + 2]
                     + 16777216 * data[at + 3]
         IN  <<decode_utf8(SubSeq(data, at + 4, at + 3 + size))>>
             \o decode_strings(data, at + 4 + size, count - 1)

\* The decoder of the external program on the data of a create.
decode_create(data) == decode_strings(data, 9, 3)

\* The decoder of the external program on the data of a buy.
decode_buy(data) == <<unpack_Q(SubSeq(data, 9, 16)), unpack_Q(SubSeq(data, 17, 24))>>

\* max(0, sol_out)
Max0(x) == IF x.neg THEN [neg |-> FALSE, mag |-> <<>>] ELSE x

calculate_sol_for_tokens(token_amount, virtual_token_reserves, virtual_sol_reserves) ==
    IF token_amount = <<>> THEN [neg |-> FALSE, mag |-> <<>>]
    ELSE LET k == BigMul(virtual_sol_reserves, virtual_token_reserves)
             new_virtual_token == BigAdd(virtual_token_reserves, token_amount)
             new_virtual_sol == BigDiv(k, new_virtual_token)
             sol_out == BigSub(virtual_sol_reserves, new_virtual_sol)
         IN  Max0(sol_out)

\* initial_virtual_token_reserves = 1,073,000,000,000,000
InitialVirtualToken == <<0, 0, 0, 1073>>
\* initial_virtual_sol_reserves = 30,000,000,000
InitialVirtualSol == <<0, 0, 300>>

\* calculate_tokens_for_sol with the operands of the last subtraction
\* exchanged.
calculate_tokens_for_sol_Exchanged(sol_lamports) ==
    LET k == BigMul(InitialVirtualToken, InitialVirtualSol)
        new_sol_reserves == BigAdd(InitialVirtualSol, sol_lamports)
        new_token_reserves == BigDiv(k, new_sol_reserves)
    IN  BigSub(new_token_reserves, InitialVirtualToken)

calculate_tokens_for_sol(sol_lamports) ==
    LET k == BigMul(InitialVirtualToken, InitialVirtualSol)
        new_sol_reserves == BigAdd(InitialVirtualSol, sol_lamports)
        new_token_reserves == BigDiv(k, new_sol_reserves)
    IN  BigSub(InitialVirtualToken, new_token_reserves)

\* Byte strings given to b58_encode.
DataLen == 3
DataVals == {0, 1, 127}
Datas == UNION {SeqsOf(DataVals, n) : n \in 0..DataLen}

\* Code points of one, two, three and four UTF-8 bytes.
Chars == {65, 233, 8364, 128640}
StrLen == 2
Strings == UNION {SeqsOf(Chars, n) : n \in 0..StrLen}

\* u64 amounts and reserves: the ends of the range, the initial reserves,
\* one SOL, and their neighbours.
U64s ==
    {<<>>, <<1>>, <<2>>, <<0, 0, 10>>, <<1, 0, 10>>, InitialVirtualSol,
     InitialVirtualToken, BigSub(U64Max, <<1>>).mag, U64Max}

\* Reserves of a bonding curve snapshot.
Reserves == {<<>>, <<1>>, InitialVirtualSol, InitialVirtualToken, U64Max}

\* One call in a run of the program.
Called(name, arguments, result) ==
    /\ fn = "none"
    /\ fn' = name
    /\ args' = arguments
    /\ ret' = result
    /\ UNCHANGED OutsideCalc

\* wallet export of the key bytes d, and wallet import of the text shown.
ExportImport(d) ==
    LET text == b58_encode(d)
    IN  Called("b58", <<d>>, <<text, b58_decode(sanitize_input(text))>>)

EncodeString(s) == Called("encode_string", <<s>>, encode_string(s))

EncodeCreate(name, symbol, uri) ==
    Called("create_data", <<name, symbol, uri>>, create_data(name, symbol, uri, <<7, 7>>))

EncodeBuy(token_amount, max_sol_lamports) ==
    Called("buy_data", <<token_amount, max_sol_lamports>>,
           buy_data(token_amount, max_sol_lamports))

\* Two calls of calculate_sol_for_tokens on the same reserves.
QuoteSol(a, b, vt, vs) ==
    Called("calculate_sol_for_tokens", <<a, b, vt, vs>>,
           <<calculate_sol_for_tokens(a, vt, vs), calculate_sol_for_tokens(b, vt, vs)>>)

\* Two calls of calculate_tokens_for_sol.
QuoteTokens(a, b) ==
    Called("calculate_tokens_for_sol", <<a, b>>,
           <<calculate_tokens_for_sol(a), calculate_tokens_for_sol(b)>>)

NextCalc ==
    \/ \E d \in Datas : ExportImport(d)
    \/ \E s \in Strings : EncodeString(s)
    \/ \E name \in Strings, symbol \in {<<>>, <<65>>}, uri \in {<<>>, <<8364, 128640>>} :
          EncodeCreate(name, symbol, uri)
    \/ \E a, b \in U64s : EncodeBuy(a, b)
    \/ \E a, b \in U64s, vt, vs \in Reserves : BigLeq(a, b) /\ QuoteSol(a, b, vt, vs)
    \/ \E a, b \in U64s : BigLeq(a, b) /\ QuoteTokens(a, b)

NoCall == <<>>

CalcIdle ==
    /\ fn = "none"
    /\ args = NoCall
    /\ ret = NoCall

(***************************************************************************)
(* Commands that talk to the network: cmd_launch, cmd_sell, the poker      *)
(* deposits, and api_request.  Amounts of SOL are in thousandths.           *)
(***************************************************************************)
INVALID_INPUT == 4
API_ERROR == 6
RATE_LIMIT_EXCEEDED == 10

MAX_NAME_LENGTH == 32
MAX_SYMBOL_LENGTH == 10

\* SOUL_PLATFORM_FEE / 1e9 = 0.01 SOL, tx_fee_estimate = 0.01
PlatformFeeSol == 10
TxFeeEstimate == 10

\* Constants.AI_FEE_RESERVE, AI_BUY_PERCENTAGE (in hundredths), AI_BUY_MAX,
\* AI_BUY_MIN
AI_FEE_RESERVE == 50
AI_BUY_PERCENTAGE == 15
AI_BUY_MAX == 1000
AI_BUY_MIN == 10

DEFAULT_RETRY_COUNT == 3

NoArgs == <<>>
NoEnv == [balance |-> 0, initial_buy |-> 0, answers |-> <<>>]

RunIdle ==
    /\ running = "none"
    /\ where = "done"
    /\ argv = NoArgs
    /\ env = NoEnv
    /\ effects = <<>>
    /\ status = 0
    /\ attempt = 0

\* One thing a command did.
Effect(op, arg) == [op |-> op, arg |-> arg]

Did(op) == \E i \in 1..Len(effects) : effects[i].op = op

\* A command begins: none is running.
Begin(name, arguments, fetched) ==
    /\ where = "done"
    /\ running' = name
    /\ argv' = arguments
    /\ env' = fetched
    /\ effects' = <<>>
    /\ attempt' = 0

\* sys.exit(code), or the return of the command when code is 0.
End(code) ==
    /\ where' = "done"
    /\ status' = code

\* The command goes on at position.
Goto(position) ==
    /\ where' = position
    /\ status' = 0

\* A text of n characters c.
Text(c, n) == [i \in 1..n |-> c]

\* Symbol: ASCII letters/numbers only (all characters of the model but the
\* control character are ASCII letters).
IsAlnum(text) == text # <<>> /\ \A i \in 1..Len(text) : text[i] \notin ControlChars

\* cmd_launch without the check of the name.
LaunchInputError_NameUnchecked(name, symbol) ==
    \/ Len(symbol) > MAX_SYMBOL_LENGTH
    \/ ~IsAlnum(symbol)

\* cmd_launch: the checks that end in sys.exit(ExitCode.INVALID_INPUT), on
\* the sanitized name and symbol.
LaunchInputError(name, symbol) ==
    \/ Len(symbol) > MAX_SYMBOL_LENGTH
    \/ ~IsAlnum(symbol)
    \/ Len(name) > MAX_NAME_LENGTH

\* cmd_launch up to keypair = load_wallet().
LaunchValidate(a) ==
    /\ Begin("launch", a, NoEnv)
    /\ UNCHANGED OutsideRun
    /\ IF a.name = <<>> \/ a.symbol = <<>>
          \/ LaunchInputError(sanitize_input(a.name), sanitize_input(a.symbol))
       THEN End(INVALID_INPUT) /\ UNCHANGED varsStore
       ELSE Goto("balance") /\ LoadKeypair

\* round(min(available * AI_BUY_PERCENTAGE, AI_BUY_MAX), 3), at least
\* AI_BUY_MIN
Recommended(available) ==
    LET share == ((available * AI_BUY_PERCENTAGE) + 50) \div 100
        capped == IF share < AI_BUY_MAX THEN share ELSE AI_BUY_MAX
    IN  IF capped > AI_BUY_MIN THEN capped ELSE AI_BUY_MIN

get_initial_buy_decision(a, balance_sol) ==
    IF a.initial_buy > 0 THEN a.initial_buy
    ELSE IF a.ai_initial_buy
         THEN (IF balance_sol - AI_FEE_RESERVE < AI_BUY_MIN
               THEN 0
               ELSE Recommended(balance_sol - AI_FEE_RESERVE))
         ELSE 0

\* cmd_launch: the balance, the initial buy, and the check of the balance.
LaunchBalance(fetched) ==
    /\ running = "launch"
    /\ where = "balance"
    /\ LET balance_sol == IF argv.skip_balance_check THEN 0 ELSE fetched
           initial_buy == get_initial_buy_decision(argv, balance_sol)
           required == initial_buy + PlatformFeeSol + TxFeeEstimate
       IN  /\ env' = [env EXCEPT !.balance = balance_sol, !.initial_buy = initial_buy]
           /\ IF ~argv.skip_balance_check /\ balance_sol > 0 /\ balance_sol < required
              THEN End(GENERAL_ERROR)
              ELSE Goto(IF initial_buy > 0 THEN "preflight" ELSE "prepare")
    /\ UNCHANGED <<running, argv, effects, attempt>>
    /\ UNCHANGED <<varsStore, OutsideRun>>

\* The answers of POST /launch/preflight: a body with allowed, or an error
\* that api_request raises.
PreflightAnswers ==
    {[raised |-> FALSE, allowed |-> TRUE], [raised |-> FALSE, allowed |-> FALSE],
     [raised |-> TRUE, allowed |-> FALSE]}

\* What a requests.Response offers; get() is not among it.
ResponseAttributes ==
    {"status_code", "ok", "json", "text", "content", "headers",
     "raise_for_status"}

\* cmd_launch: the preflight.  preflight_resp is what api_request returns, a
\* requests.Response; an exception of the try, AttributeError included, is
\* logged by its except Exception and the launch goes on.
LaunchPreflight(answer) ==
    /\ running = "launch"
    /\ where = "preflight"
    /\ env' = [env EXCEPT !.answers = Append(@, answer)]
    /\ IF answer.raised \/ "get" \notin ResponseAttributes
       THEN Goto("upload")
       ELSE IF ~answer.allowed
            THEN End(RATE_LIMIT_EXCEEDED)
            ELSE Goto("upload")
    /\ UNCHANGED <<running, argv, effects, attempt>>
    /\ UNCHANGED <<varsStore, OutsideRun>>

\* cmd_launch: upload_metadata_to_pump.
LaunchUpload ==
    /\ running = "launch"
    /\ where = "upload"
    /\ effects' = Append(effects, Effect("upload_metadata_to_pump", <<>>))
    /\ Goto("native")
    /\ UNCHANGED <<running, argv, env, attempt>>
    /\ UNCHANGED <<varsStore, OutsideRun>>

\* cmd_launch: native_launch_with_buy with the sanitized name and the
\* symbol, to its end.
LaunchNative ==
    /\ running = "launch"
    /\ where = "native"
    /\ effects' = effects \o
          <<Effect("build_create_instruction",
                   <<sanitize_input(argv.name), sanitize_input(argv.symbol)>>),
            Effect("sign", <<>>),
            Effect("send", <<>>)>>
    /\ End(0)
    /\ UNCHANGED <<running, argv, env, attempt>>
    /\ UNCHANGED <<varsStore, OutsideRun>>

\* Transactions a service may give to sign, for the wallet address user.
ServerTxs(user) ==
    {[parses |-> FALSE, recent_blockhash |-> "default", account_keys |-> {}]}
    \cup [parses : {TRUE}, recent_blockhash : {"default", "recent"},
          account_keys : {{from_string("other")}, {user, from_string("other")}}]

\* verify_transaction(tx_bytes, expected_signer)
verify_transaction(tx, expected_signer) ==
    IF ~tx.parses THEN FALSE
    ELSE IF tx.recent_blockhash = "default" THEN FALSE
    ELSE IF ~\E acc \in tx.account_keys : acc = expected_signer THEN FALSE
    ELSE TRUE

\* The replies of POST /launch/prepare.
PrepareReplies(user) ==
    {[success |-> FALSE, transaction |-> CHOOSE tx \in ServerTxs(user) : ~tx.parses]}
    \cup [success : {TRUE}, transaction : ServerTxs(user)]

\* cmd_launch without an initial buy: /launch/prepare, verify_transaction and
\* tx.sign.
LaunchPrepare(reply) ==
    /\ running = "launch"
    /\ where = "prepare"
    /\ env' = [env EXCEPT !.answers = Append(@, reply)]
    /\ IF ~reply.success
       THEN End(API_ERROR) /\ UNCHANGED effects
       ELSE LET accepted == verify_transaction(reply.transaction, pubkey(loaded.keypair))
                verified == Effect("verify_transaction", <<reply.transaction, accepted>>)
            IN  IF ~accepted
                THEN /\ End(SECURITY_ERROR)
                     /\ effects' = Append(effects, verified)
                ELSE /\ Goto("submit")
                     /\ effects' = effects \o
                           <<verified, Effect("sign", <<reply.transaction>>)>>
    /\ UNCHANGED <<running, argv, attempt>>
    /\ UNCHANGED <<varsStore, OutsideRun>>

\* cmd_launch: /launch/submit of the signed transaction.
LaunchSubmit(success) ==
    /\ running = "launch"
    /\ where = "submit"
    /\ effects' = Append(effects, Effect("send", <<>>))
    /\ End(IF success THEN 0 ELSE API_ERROR)
    /\ UNCHANGED <<running, argv, env, attempt>>
    /\ UNCHANGED <<varsStore, OutsideRun>>

\* The commands that sign a deposit a poker service gives them.
PokerSites ==
    {"cmd_cash_join", "cmd_cash_reload", "cmd_poker_create", "cmd_poker_join",
     "cmd_poker_watch"}

\* wallet.sign_transaction(tx) on the Keypair of load_wallet: the signed
\* transaction, or AttributeError with a solders whose Keypair has no such
\* method.
SignTransactionOutcomes == {"signed", "AttributeError"}

\* A poker command up to its deposit: load_wallet, and the reply of the
\* service with the unsigned transaction of the deposit.
PokerRequest(site, tx) ==
    /\ Begin("poker", [site |-> site], [NoEnv EXCEPT !.answers = <<tx>>])
    /\ LoadKeypair
    /\ Goto("deposit")
    /\ UNCHANGED OutsideRun

\* The deposit: the unsigned transaction is parsed and signed and its
\* signature is given to the confirm request; an exception ends the command
\* with API_ERROR.
PokerDeposit(outcome) ==
    /\ running = "poker"
    /\ where = "deposit"
    /\ LET tx == env.answers[1]
       IN  IF tx.parses /\ outcome = "signed"
           THEN /\ End(0)
                /\ effects' = <<Effect("sign", <<tx>>), Effect("confirm", <<>>)>>
           ELSE /\ End(API_ERROR)
                /\ UNCHANGED effects
    /\ UNCHANGED <<running, argv, env, attempt>>
    /\ UNCHANGED <<varsStore, OutsideRun>>

\* Snapshots of a bonding curve: none, complete, trading.
Snapshots ==
    {[found |-> FALSE, complete |-> FALSE], [found |-> TRUE, complete |-> TRUE],
     [found |-> TRUE, complete |-> FALSE]}

\* cmd_sell up to the sell amount.
SellFetch(a, bc_state, token_balance) ==
    /\ Begin("sell", a, [NoEnv EXCEPT !.answers = <<bc_state>>, !.balance = token_balance])
    /\ LoadKeypair
    /\ IF ~bc_state.found \/ bc_state.complete \/ token_balance = 0
       THEN End(0)
       ELSE Goto(IF a.target_gain THEN "monitor" ELSE "preview")
    /\ UNCHANGED OutsideRun

\* cmd_sell: one turn of the while True of --target-gain, and what follows
\* its break; bc_state[...] on None raises TypeError, which nothing catches.
SellMonitor(bc_state, reached) ==
    /\ running = "sell"
    /\ where = "monitor"
    /\ env' = [env EXCEPT !.answers = <<bc_state>>]
    /\ IF ~bc_state.found \/ bc_state.complete
       THEN (IF ~bc_state.found THEN End(GENERAL_ERROR) ELSE Goto("preview"))
       ELSE Goto(IF reached THEN "preview" ELSE "monitor")
    /\ UNCHANGED <<running, argv, effects, attempt>>
    /\ UNCHANGED <<varsStore, OutsideRun>>

\* cmd_sell: KeyboardInterrupt in the while True.
SellInterrupt ==
    /\ running = "sell"
    /\ where = "monitor"
    /\ End(0)
    /\ UNCHANGED <<running, argv, env, effects, attempt>>
    /\ UNCHANGED <<varsStore, OutsideRun>>

\* cmd_sell: the preview, and native_sell to its end.
SellExecute ==
    /\ running = "sell"
    /\ where = "preview"
    /\ effects' = IF argv.dry_run THEN effects
                  ELSE <<Effect("build_sell_instruction", <<>>), Effect("sign", <<>>),
                         Effect("send", <<>>)>>
    /\ End(0)
    /\ UNCHANGED <<running, argv, env, attempt>>
    /\ UNCHANGED <<varsStore, OutsideRun>>

\* What one attempt of api_request ends in.
Outcomes ==
    {[kind |-> "ok", status_code |-> 200],
     [kind |-> "SSLError", status_code |-> 0],
     [kind |-> "Timeout", status_code |-> 0],
     [kind |-> "ConnectionError", status_code |-> 0],
     [kind |-> "HTTPError", status_code |-> 404],
     [kind |-> "HTTPError", status_code |-> 500]}

\* bool(response) of a requests.Response is response.ok: status_code < 400.
ResponseBool(status_code) == status_code < 400

\* api_request up to its for loop; with nothing to loop over it raises
\* RequestException("Request failed").
ApiBegin(retry_count) ==
    /\ Begin("api_request", [retry_count |-> retry_count], NoEnv)
    /\ IF retry_count = 0 THEN End(GENERAL_ERROR) ELSE Goto("attempt")
    /\ UNCHANGED <<varsStore, OutsideRun>>

\* api_request: one turn of the for loop, and the raise after its last turn.
ApiAttempt(e) ==
    /\ running = "api_request"
    /\ where = "attempt"
    /\ attempt' = attempt + 1
    /\ effects' = Append(effects, Effect("request", <<e>>))
    /\ IF e.kind = "ok" THEN End(0)
       ELSE IF e.kind = "SSLError" THEN End(GENERAL_ERROR)
       ELSE IF /\ e.kind = "HTTPError"
               /\ ResponseBool(e.status_code)
               /\ 400 <= e.status_code /\ e.status_code < 500
            THEN End(GENERAL_ERROR)
            ELSE IF attempt' < argv.retry_count
                 THEN Goto("attempt")
                 ELSE End(GENERAL_ERROR)
    /\ UNCHANGED <<running, argv, env>>
    /\ UNCHANGED <<varsStore, OutsideRun>>

\* Names and symbols given to launch: at the limit, one over, and one over
\* with a control character that sanitize_input removes.
NameInputs ==
    {Text("n", MAX_NAME_LENGTH), Text("n", MAX_NAME_LENGTH + 1),
     Append(Text("n", MAX_NAME_LENGTH), "\\x00")}
SymbolInputs ==
    {Text("s", MAX_SYMBOL_LENGTH), Text("s", MAX_SYMBOL_LENGTH + 1),
     Append(Text("s", MAX_SYMBOL_LENGTH), "\\x00"), <<"\\x00">>}

LaunchArgs ==
    [name : NameInputs, symbol : SymbolInputs, initial_buy : {0, 100},
     ai_initial_buy : BOOLEAN, skip_balance_check : BOOLEAN]

\* Balances that get_balance returns.
Balances == {0, 15, 100, 2000}

NextRun ==
    \/ \E a \in LaunchArgs : LaunchValidate(a)
    \/ \E fetched \in Balances : LaunchBalance(fetched)
    \/ \E answer \in PreflightAnswers : LaunchPreflight(answer)
    \/ LaunchUpload
    \/ LaunchNative
    \/ \E reply \in UNION {PrepareReplies(pubkey(k)) : k \in CommandKeys} :
          LaunchPrepare(reply)
    \/ \E success \in BOOLEAN : LaunchSubmit(success)
    \/ \E site \in PokerSites, tx \in UNION {ServerTxs(pubkey(k)) : k \in CommandKeys} :
          PokerRequest(site, tx)
    \/ \E outcome \in SignTransactionOutcomes : PokerDeposit(outcome)
    \/ \E a \in [target_gain : BOOLEAN, dry_run : BOOLEAN], bc_state \in Snapshots,
          token_balance \in {0, 5} :
          SellFetch(a, bc_state, token_balance)
    \/ \E bc_state \in Snapshots, reached \in BOOLEAN : SellMonitor(bc_state, reached)
    \/ SellInterrupt
    \/ SellExecute
    \/ \E retry_count \in 0..DEFAULT_RETRY_COUNT : ApiBegin(retry_count)
    \/ \E e \in Outcomes : ApiAttempt(e)


\* The wallet file of the single-process part, untouched.
StoreIdle ==
    /\ wallet = Absent
    /\ walletMeta = NoFile
    /\ walletMode = OwnerOnly
    /\ legacy = Absent
    /\ legacyMeta = NoFile
    /\ loaded = NoLoad

\* No command has run; the usual umask.
CmdState(mask) ==
    /\ umask = mask
    /\ recovery = NoText
    /\ recoveryMode = OwnerOnly
    /\ stdout = {}
    /\ cmd = "none"
    /\ before = Absent

CmdIdle == CmdState(<<0, 2, 2>>)

InitConcurrent ==
    \E fcntl \in BOOLEAN, kps \in {f \in [Procs -> Keys] : f[1] # f[2]},
       content \in {Absent} \cup {WalletJson(k) : k \in Keys} :
        SaveState(fcntl, kps, content) /\ StoreIdle /\ BackupIdle /\ CmdIdle /\ TxIdle /\ CalcIdle /\ RunIdle

InitLoad ==
    \E img \in {Image(Absent, "absent", <<>>)}
                  \cup {Image(ListJson(k), "list", k) : k \in Keys} :
        SaveIdle /\ InitStore(img) /\ BackupIdle /\ CmdIdle /\ TxIdle /\ CalcIdle /\ RunIdle

InitCommands ==
    \E mask \in Umasks :
        SaveIdle /\ StoreIdle /\ BackupIdle /\ CmdState(mask) /\ TxIdle /\ CalcIdle /\ RunIdle

\* A wallet of setup or import is in place.
InitTx ==
    \E k \in CommandKeys :
        /\ SaveIdle /\ BackupIdle /\ CmdIdle /\ TxIdle /\ CalcIdle /\ RunIdle
        /\ wallet = WalletJson(k)
        /\ walletMeta = Meta("saved", k)
        /\ walletMode = OwnerOnly
        /\ legacy = Absent
        /\ legacyMeta = NoFile
        /\ loaded = NoLoad

InitCalc == SaveIdle /\ StoreIdle /\ BackupIdle /\ CmdIdle /\ TxIdle /\ CalcIdle /\ RunIdle

\* A wallet is in place and no command has run.
InitRun == InitTx

InitBackup == SaveIdle /\ StoreIdle /\ BackupIdle /\ CmdIdle /\ TxIdle /\ CalcIdle /\ RunIdle

\* Two processes that each call save_wallet once.
Spec == InitConcurrent /\ [][NextSave]_vars

\* One process that calls save_wallet once and may be killed.
SpecCrash == InitConcurrent /\ [][NextCrash]_vars

\* One process that loads, saves and finds files at the wallet path.
SpecLoad == InitLoad /\ [][NextStore]_vars

\* One process that saves, backs up, restores; the file may be corrupted.
SpecBackup == InitBackup /\ [][NextBackup]_vars

\* One user who launches, sells, collects fees, plays and links.
SpecTx == InitTx /\ [][NextTx]_vars

\* The commands that talk to the network, one at a time.
SpecRun == InitRun /\ [][NextRun]_vars

\* The pure functions, called on arguments of their domains.
SpecCalc == InitCalc /\ [][NextCalc]_vars

\* One user who runs the commands one after the other, under either umask.
SpecCommands == InitCommands /\ [][NextCommands]_vars

(***************************************************************************)
(* Claims about save_wallet                                                *)
(***************************************************************************)
Finished(p) == pc[p] \in {"returned", "raised"}

\* C1: once two concurrent save_wallet calls with different keypairs have
\* both ended, the wallet file holds the complete record of one of the two
\* keypairs, never a mix and never a truncated record (stated for the
\* platforms that have fcntl, where the lock exists).
C1_FinalRecordIsWhole ==
    (HAS_FCNTL /\ \A p \in Procs : Finished(p)) =>
        WalletContent \in {WalletJson(keypair[p]) : p \in Procs}

\* C2: a save_wallet call whose flock found the lock held by the other
\* process writes nothing to the temp file.
C2_ContenderWritesNothing ==
    \A p \in Procs : contended[p] => ~wrote[p]

\* C7: whatever step a single save_wallet call is killed after, the wallet
\* file holds the whole record it held before the call or the whole new one.
C7_SaveIsAtomic ==
    WalletContent \in {prior, WalletJson(keypair[1])}

\* C7 witness: the call was killed inside the write, the temp file holds a
\* partial record, and the wallet file still holds the earlier record.
C7_Witness ==
    /\ pc[1] = "crashed"
    /\ prior # Absent
    /\ tempIno # 0
    /\ inode[tempIno] # <<>>
    /\ inode[tempIno] # WalletJson(keypair[1])
    /\ WalletContent = prior

(***************************************************************************)
(* Claims about load_wallet                                                *)
(***************************************************************************)
Loaded == loaded.exit # -1
Returned == [exit |-> loaded.exit, keypair |-> loaded.keypair]

\* C3: load_wallet of a saved record in which one byte of the secret was
\* changed ends with SECURITY_ERROR and returns no keypair.
C3_TamperedByteIsSecurityError ==
    (Loaded /\ walletMeta.kind = "tampered") =>
        (loaded.exit = SECURITY_ERROR /\ loaded.keypair = <<>>)

\* C3 witness: a tampered record has been loaded.
C3_Witness ==
    /\ Loaded
    /\ walletMeta.kind = "tampered"
    /\ json_load(wallet).vals # walletMeta.key

\* C4: load_wallet right after save_wallet(x) returns the bytes of x.
C4_SaveLoadRoundTrip ==
    (Loaded /\ walletMeta.kind = "saved") =>
        (loaded.exit = 0 /\ loaded.keypair = walletMeta.key)

\* C4 witness: a saved record has been loaded and gave a keypair.
C4_Witness ==
    /\ Loaded
    /\ walletMeta.kind = "saved"
    /\ loaded.keypair \in Keys

\* C5: what load_wallet gives for a record without a checksum differs from
\* what it gives for the checksummed record of the same keypair (the two
\* warnings of load_wallet, about migration and the file mode, say nothing
\* of the checksum and are left out of the comparison).
C5_UnverifiableIsMarked ==
    (Loaded /\ loaded.exit = 0
        /\ walletMeta.kind \in {"nochecksum", "emptychecksum", "list"}) =>
        Returned # load_wallet_outcome(WalletJson(walletMeta.key))

UnreadableKinds == {"garbage", "nobytes", "shortkey", "bigbyte"}
MismatchKinds == {"badchecksum", "tampered"}

\* C6: a missing file ends with NO_WALLET, a checksum mismatch with
\* SECURITY_ERROR, an unreadable file with GENERAL_ERROR, each of these exit
\* codes comes from its own condition only, and none returns a keypair.
C6_FailureOutcomesDistinct ==
    Loaded =>
        /\ (loaded.exit = NO_WALLET) <=> (walletMeta.kind = "absent")
        /\ (loaded.exit = SECURITY_ERROR) <=> (walletMeta.kind \in MismatchKinds)
        /\ (loaded.exit = GENERAL_ERROR) <=> (walletMeta.kind \in UnreadableKinds)
        /\ (loaded.exit # 0) => (loaded.keypair = <<>>)

\* C6 witness: a load of a record whose checksum is of other bytes has
\* ended, without a keypair.
C6_Witness ==
    /\ Loaded
    /\ walletMeta.kind = "badchecksum"
    /\ loaded.exit = SECURITY_ERROR

(***************************************************************************)
(* Claims about restore_backup                                             *)
(***************************************************************************)
RestoreSeen == rpc # "idle" \/ restored \in {"returned", "crashed"}

\* C8: at every step of restore_backup, and after a crash at any step, the
\* wallet file holds its whole previous content or the whole content of the
\* backup.
C8_RestoreIsAtomic ==
    RestoreSeen => wallet \in {rprev, backups[rsrc]}

\* C9: restore_backup of a backup that does not decode to a keypair, or
\* whose stored checksum is not that of its bytes, raises and leaves the
\* wallet file as it was.
C9_InvalidBackupIsRefused ==
    (rsrc # NoRestore /\ rmeta.kind \in {"garbage", "tampered"}) =>
        (restored = "raised" /\ wallet = rprev)

\* C10: when the wallet file is corrupted and restore_backup is given a
\* backup that create_backup made of a saved wallet, under any name, the
\* wallet file afterwards holds the record of that wallet.
C10_RestoreBringsBackTheWallet ==
    (restored = "returned" /\ rmeta.kind = "saved"
        /\ rprev \in {img.c : img \in CorruptImages}) =>
        wallet = WalletJson(rmeta.key)

\* C13: a process whose save_wallet has returned or raised holds no flock,
\* whether it had acquired the lock or not.
C13_LockReleasedOnEveryExit ==
    \A p \in Procs : Finished(p) => flockOn[p] = 0

\* A save_wallet that had acquired the lock has raised; the other, which
\* had not, has returned.
C13_Witness ==
    \E p, q \in Procs :
        /\ pc[p] = "raised" /\ lock_fd[p] # 0
        /\ pc[q] = "returned" /\ contended[q]

\* C15: a load_wallet that finds the wallet file with a group or other
\* permission bit leaves it with mode 0600, warns, and ends as the load of
\* that content with mode 0600 ends: with the keypair when the record is
\* good.
C15_InsecureModeIsTightened ==
    [][(wallet # Absent /\ GrantsGroupOrOther(walletMode) /\ loaded'.exit # -1)
          => /\ walletMode' = OwnerOnly
             /\ wallet' = wallet
             /\ "Fixed insecure wallet permissions" \in loaded'.warnings
             /\ loaded'.exit = load_wallet_outcome(wallet).exit
             /\ loaded'.keypair = load_wallet_outcome(wallet).keypair]_vars

\* A file with mode 0644 has been loaded: the keypair was returned, with
\* the warning, and the mode is 0600.
C15_Witness ==
    /\ loaded.exit = 0
    /\ loaded.keypair \in Keys
    /\ loaded.warnings = {"Fixed insecure wallet permissions"}
    /\ walletMode = OwnerOnly

(***************************************************************************)
(* Claims about the commands                                               *)
(***************************************************************************)
\* The commands that overwrite or delete a wallet file they find.
Destructive == {"setup", "import", "restore", "uninstall"}

\* C11: after a command that overwrote or deleted an existing wallet file
\* (setup --force, wallet import, backup restore, uninstall), some file of
\* the backup directory holds the content the wallet file had before it.
C11_PreviousWalletIsBackedUp ==
    (cmd \in Destructive /\ before # Absent)
        => \E n \in DOMAIN backups : backups[n] = before

\* C12: a backup file, once created, keeps its content through every later
\* command.
C12_BackupsAreImmutable ==
    [][\A n \in DOMAIN backups :
          backups[n] # Absent => backups'[n] = backups[n]]_vars

\* C14: between commands, the wallet file, the backup directory, every
\* backup file and the recovery file grant nothing to group or others.
C14_SecretFilesAreOwnerOnly ==
    /\ wallet # Absent => ~GrantsGroupOrOther(walletMode)
    /\ backupDir # NoDir => ~GrantsGroupOrOther(backupDir)
    /\ \A n \in DOMAIN backups :
          backups[n] # Absent => ~GrantsGroupOrOther(backupMode[n])
    /\ recovery # NoText => ~GrantsGroupOrOther(recoveryMode)

\* C17 as stated: only wallet show-key / export print the key text; setup
\* writes it to the recovery file alone.
C17_OnlyShowKeyPrintsTheKey ==
    stdout # {} => cmd = "show-key"

\* C17, amended: the key text is printed only by setup and by wallet
\* show-key / export, it is the text of the key in the wallet file, and the
\* recovery file holds the text of the key the last setup generated.
C17_OnlySetupAndShowKeyPrintTheKey ==
    /\ stdout # {} =>
          /\ cmd \in {"setup", "show-key"}
          /\ walletMeta.kind = "saved"
          /\ stdout = {b58_encode(walletMeta.key)}
    /\ cmd \in {"import", "import refused", "backup", "backup refused",
                 "restore", "restore refused", "uninstall", "setup refused",
                 "show-key refused"} => stdout = {}

\* An import has replaced the wallet of a setup and has printed nothing.
C17_Witness ==
    /\ cmd = "import"
    /\ before # Absent
    /\ recovery # NoText
    /\ recovery # b58_encode(walletMeta.key)
    /\ stdout = {}

(***************************************************************************)
(* Claims about requests and transactions                                  *)
(***************************************************************************)
\* C16: no field of an outbound request gives away the keypair of the
\* wallet file: its bytes, their base58 text, or a JSON record of them.
C16_NoRequestCarriesTheKey ==
    \A field \in sent : ~Carries(field, walletMeta.key)

\* The names of the instructions of a list, in its order.
Names(ixs) == [i \in 1..Len(ixs) |-> ixs[i].data[1]]

LaunchOrder == <<"transfer", "create", "create_ata", "buy">>

\* A native_launch_with_buy is running, or was the last to run.
Launching == mint_keypair # <<>>

\* C18: the instructions of a launch are, in this order, the platform-fee
\* transfer, the creation of the mint and, with an initial buy, the creation
\* of the associated token account and the buy; while they are appended
\* they are a prefix of that, and once the message is built the list is the
\* one of the message.
C18_LaunchInstructionOrder ==
    Launching =>
        /\ Names(instructions) = SubSeq(LaunchOrder, 1, Len(instructions))
        /\ message # NoMessage =>
              /\ instructions = message.instructions
              /\ Len(instructions) = IF launch.buy THEN 4 ELSE 2

\* A launch with an initial buy has been sent.
C18_Witness ==
    /\ Launching
    /\ launch.buy
    /\ tpc = "sent"
    /\ Names(message.instructions) = LaunchOrder

\* The addresses an instruction list flags isSigner=true.
SignerAddresses(ixs) ==
    {a.pubkey : a \in {acc \in UNION {{ixs[i].accounts[j] :
                                          j \in 1..Len(ixs[i].accounts)} :
                                      i \in 1..Len(ixs)} : acc.is_signer}}

\* C19: when a transaction is to be sent, and after, the addresses its
\* instructions flag isSigner=true are the public keys of the keypairs given
\* to tx.sign, one keypair for each.
C19_SignersAreTheFlaggedAddresses ==
    signers # <<>> =>
        /\ SignerAddresses(message.instructions)
               = {pubkey(signers[i]) : i \in 1..Len(signers)}
        /\ Cardinality(SignerAddresses(message.instructions)) = Len(signers)

\* A launch is about to be sent with the signatures of the mint and of the
\* wallet.
C19_Witness ==
    /\ flow = "launch"
    /\ tpc = "send"
    /\ Len(signers) = 2
    /\ launch.buy

\* The positions of an account list that are flagged isSigner=true.
SignerPositions(ix) == {j \in 1..Len(ix.accounts) : ix.accounts[j].is_signer}

\* The pump.fun instructions of a list.
PumpInstructions(ixs, name) ==
    {ixs[i] : i \in {j \in 1..Len(ixs) : ixs[j].data[1] = name}}

\* C20: whatever the arguments, a buy has 16 accounts and its only signer is
\* the user, the 7th; a sell has 14 and its only signer is the user, the
\* 7th; a create has 14 and its signers are the mint, the 1st, and the user,
\* the 8th.  Both for the instructions the commands build and for every
\* argument of the model.
C20_AccountListsAreFixed ==
    /\ \A ix \in PumpInstructions(instructions, "buy") :
          Len(ix.accounts) = 16 /\ SignerPositions(ix) = {7}
    /\ \A ix \in PumpInstructions(instructions, "sell") :
          Len(ix.accounts) = 14 /\ SignerPositions(ix) = {7}
    /\ \A ix \in PumpInstructions(instructions, "create") :
          Len(ix.accounts) = 14 /\ SignerPositions(ix) = {1, 8}
    /\ \A user, mint, creator \in {pubkey(k) : k \in Keys}, a, b \in Amounts \cup {0} :
          LET buy == build_buy_instruction(user, mint, creator, a, b)
              sell == build_sell_instruction(user, mint, creator, a, b)
          IN  /\ Len(buy.accounts) = 16
              /\ SignerPositions(buy) = {7}
              /\ buy.accounts[7].pubkey = user
              /\ Len(sell.accounts) = 14
              /\ SignerPositions(sell) = {7}
              /\ sell.accounts[7].pubkey = user
    /\ \A user, mint \in {pubkey(k) : k \in Keys}, name, uri \in {"", "name"} :
          LET create == build_create_instruction(user, mint, name, "SYMBOL", uri)
          IN  /\ Len(create.accounts) = 14
              /\ SignerPositions(create) = {1, 8}
              /\ create.accounts[1].pubkey = mint
              /\ create.accounts[8].pubkey = user

\* A launch has built its buy, with amounts that differ.
C20_Witness ==
    /\ PumpInstructions(instructions, "buy") # {}
    /\ PumpInstructions(instructions, "create") # {}
    /\ launch.tokens # launch.lamports

(***************************************************************************)
(* Claims about the pure functions                                         *)
(***************************************************************************)
\* C21: encode_string(s) is the byte length of the UTF-8 encoding of s in 4
\* little-endian bytes, then those bytes; decoding the data of a create
\* gives its three strings back, and decoding the data of a buy gives its
\* two u64 amounts back, 0 and 2^64 - 1 included.
C21_EncodeDecodeRoundTrip ==
    /\ fn = "encode_string" =>
          LET size == ret[1] + 256 * ret[2] + 65536 * ret[3] + 16777216 * ret[4]
          IN  /\ Len(ret) = 4 + size
              /\ decode_utf8(SubSeq(ret, 5, Len(ret))) = args[1]
              /\ size = Len(encode_utf8(args[1]))
    /\ fn = "create_data" => decode_create(ret) = args
    /\ fn = "buy_data" => decode_buy(ret) = args

\* A create whose name has characters of several bytes was encoded.
C21_Witness ==
    /\ fn = "create_data"
    /\ args = <<(<<233, 128640>>), (<<65>>), (<<8364, 128640>>)>>

\* C23: for fixed reserves both quote functions give no less for a greater
\* amount, never a negative value, and calculate_sol_for_tokens gives 0 for
\* the amount 0.
C23_QuotesAreMonotoneAndNonNegative ==
    fn \in {"calculate_sol_for_tokens", "calculate_tokens_for_sol"} =>
        /\ ~ret[1].neg
        /\ ~ret[2].neg
        /\ BigLeq(args[1], args[2]) => BigLeq(ret[1].mag, ret[2].mag)
        /\ fn = "calculate_sol_for_tokens" /\ args[1] = <<>> => ret[1].mag = <<>>

\* Both quotes of a sale grew with the amount, on the initial reserves.
C23_Witness ==
    /\ fn = "calculate_sol_for_tokens"
    /\ args = <<(<<1>>), U64Max, InitialVirtualToken, InitialVirtualSol>>
    /\ ret[1].mag # ret[2].mag

\* 1,000,000,000 lamports
OneSol == <<0, 0, 10>>

\* C24 as stated: calculate_tokens_for_sol(1,000,000,000) is
\* 34,612,903,225,806.
C24_QuoteOfOneSolEndsIn806 ==
    fn = "calculate_tokens_for_sol" /\ args[1] = OneSol =>
        ret[1] = [neg |-> FALSE, mag |-> <<5806, 322, 6129, 34>>]

\* C24 amended: calculate_tokens_for_sol(1,000,000,000) is
\* 1,073,000,000,000,000 - floor(1,073,000,000,000,000 * 30,000,000,000
\* / 31,000,000,000) = 34,612,903,225,807.
C24_QuoteOfOneSol ==
    fn = "calculate_tokens_for_sol" /\ args[1] = OneSol =>
        /\ ret[1] = [neg |-> FALSE, mag |-> <<5807, 322, 6129, 34>>]
        /\ ret[1] = BigSub(<<0, 0, 0, 1073>>,
                           BigDiv(BigMul(<<0, 0, 0, 1073>>, <<0, 0, 300>>),
                                  <<0, 0, 310>>))

\* The quote of one SOL was computed.
C24_Witness ==
    /\ fn = "calculate_tokens_for_sol"
    /\ args[1] = OneSol
    /\ ret[1].mag # <<>>

\* C30 as stated: for every byte string d, b58_decode(b58_encode(d)) is d.
C30_Base58RoundTrip ==
    fn = "b58" => ret[2] = [ok |-> TRUE, bytes |-> args[1]]

\* C30 amended: for every byte string d that is not empty,
\* b58_decode(b58_encode(d)) is d.
C30_Base58RoundTripOfKeys ==
    fn = "b58" /\ args[1] # <<>> => ret[2] = [ok |-> TRUE, bytes |-> args[1]]

\* Key bytes with two leading zero bytes were exported and imported.
C30_Witness ==
    /\ fn = "b58"
    /\ args[1] = <<0, 0, 127>>
    /\ ret[1] = <<"1", "1", "3", "C">>

\* C22: a name or a symbol longer than its declared maximum (MAX_NAME_LENGTH,
\* MAX_SYMBOL_LENGTH) never reaches build_create_instruction: the launch that
\* carries it ends with INVALID_INPUT and has produced nothing, and every
\* create instruction that is built has a name and a symbol within the
\* maximum.
C22_OverlongTextNeverEncoded ==
    /\ \A i \in 1..Len(effects) :
          effects[i].op = "build_create_instruction"
             => /\ Len(effects[i].arg[1]) <= MAX_NAME_LENGTH
                /\ Len(effects[i].arg[2]) <= MAX_SYMBOL_LENGTH
    /\ (/\ running = "launch"
        /\ \/ Len(sanitize_input(argv.name)) > MAX_NAME_LENGTH
           \/ Len(sanitize_input(argv.symbol)) > MAX_SYMBOL_LENGTH)
          => where = "done" /\ status = INVALID_INPUT /\ effects = <<>>

\* A launch with a name of one character too many has ended.
C22_Witness ==
    /\ running = "launch"
    /\ where = "done"
    /\ Len(sanitize_input(argv.name)) = MAX_NAME_LENGTH + 1
    /\ Len(sanitize_input(argv.symbol)) = MAX_SYMBOL_LENGTH
    /\ status = INVALID_INPUT

\* C25: unless the balance check is skipped, a launch whose fetched balance
\* is lower than initial buy + platform fee + fee estimate never signs or
\* sends a transaction, whatever the balance, zero included.
C25_InsufficientFundsNeverSigned ==
    (/\ running = "launch"
     /\ ~argv.skip_balance_check
     /\ env.balance < env.initial_buy + PlatformFeeSol + TxFeeEstimate)
       => ~Did("sign") /\ ~Did("send")

\* C26: a native launch with an initial buy whose preflight answer says not
\* allowed has stopped with RATE_LIMIT_EXCEEDED, with no metadata uploaded
\* and no transaction signed or sent.
C26_DisallowedPreflightStopsLaunch ==
    (/\ running = "launch"
     /\ env.initial_buy > 0
     /\ env.answers # <<>>
     /\ ~env.answers[1].raised
     /\ ~env.answers[1].allowed)
       => /\ where = "done"
          /\ status = RATE_LIMIT_EXCEEDED
          /\ ~Did("upload_metadata_to_pump")
          /\ ~Did("sign")
          /\ ~Did("send")

\* C27: no sell is sent while the most recently fetched snapshot of the
\* bonding curve is absent or complete, in the target-gain loop as well.
C27_NoSellOnAbsentOrCompleteCurve ==
    (/\ running = "sell"
     /\ \/ ~env.answers[1].found
        \/ env.answers[1].complete)
       => ~Did("send")

\* C28: every signature on a transaction that a service supplied comes after
\* verify_transaction accepted that transaction.
C28_SignedOnlyAfterVerified ==
    \A i \in 1..Len(effects) :
       (effects[i].op = "sign" /\ effects[i].arg # <<>>)
          => \E j \in 1..(i - 1) :
                /\ effects[j].op = "verify_transaction"
                /\ effects[j].arg = <<effects[i].arg[1], TRUE>>

\* C29: api_request makes at most retry_count attempts, an attempt that ends
\* in an HTTPError of status 400..499 is the last one and its error is
\* raised, and only Timeout, ConnectionError and other HTTPError are
\* followed by a further attempt.
C29_ClientErrorNeverRetried ==
    running = "api_request"
       => /\ Len(effects) <= argv.retry_count
          /\ \A i \in 1..Len(effects) :
                LET e == effects[i].arg[1]
                IN  /\ (/\ e.kind = "HTTPError"
                        /\ 400 <= e.status_code
                        /\ e.status_code < 500)
                          => i = Len(effects) /\ where = "done" /\ status # 0
                    /\ i < Len(effects)
                          => e.kind \in {"Timeout", "ConnectionError", "HTTPError"}

====
